---- MODULE Spec2Model ----
(***************************************************************************)
(* Model of install.py (auto-conduwuit installer): the step sequencer      *)
(* main(), the retry loops of install_packages / install_docker /          *)
(* get_ssl_certificate, the package-lock wait of install_docker, the       *)
(* service wait of setup_conduwuit, wait_for_operation and                 *)
(* TroubleshootingMenu.show_menu.                                          *)
(*                                                                         *)
(* The program is one sequential thread; pc is its position.  External     *)
(* commands, predicates and operator answers are nondeterministic inputs.  *)
(* Time is wall-clock seconds since the start_time of the wait loop that   *)
(* is running; it saturates at that loop's limit (every comparison the     *)
(* code makes is against a value at or below the limit).                   *)
(***************************************************************************)
EXTENDS Integers, Sequences, FiniteSets, TLC

(* ------------------------------ bounds -------------------------------- *)
\* longest time (s) one external command, predicate or operator answer takes
MaxDelay == 1
\* deepest nesting of show_menu explored (the code recurses without limit)
MaxMenuDepth == 2
\* largest exit status of an external command
MaxExitCode == 3

(* ------------------------- program constants -------------------------- *)
total_steps == 10
max_retries_certbot == 3
max_retries_docker == 3
max_retries_ssl == 3
lock_max_wait_time == 120
lock_check_interval == 5
auto_fix_threshold == 30
docker_max_wait == 30
num_conduwuit_images == 4
num_coturn_images == 3
svc_max_wait_time == 180
svc_check_interval == 5
wfo_check_interval == 5
timeout_services == 120
timeout_admin == 60
timeout_final == 30
general_fix_sleep == 10
docker_fix_sleep == 2
certbot_fix_sleep == 2
conduwuit_fix_sleep == 10

lock_files == {"lock-frontend", "lists-lock", "dpkg-lock"}
processes == {"unattended-upgr", "apt-get", "dpkg"}

\* the timeout of the wait_for_operation call of progress step s
Timeout(s) == CASE s = 7 -> timeout_services
                [] s = 8 -> timeout_admin
                [] s = 9 -> timeout_final
                [] OTHER -> 0

\* what input() can return at the y/N confirmation
ConfirmInputs == {"y", "Y", "n", "", "yes"}


(* ------------------- labels and commands of the menu ------------------ *)
\* strings that are searched or lower-cased are sequences of characters

\* the label of the wait of step 7: "services to become healthy"
label_services ==
  <<"s", "e", "r", "v", "i", "c", "e", "s", " ", "t", "o", " ", "b", "e",
    "c", "o", "m", "e", " ", "h", "e", "a", "l", "t", "h", "y">>

\* the label of the wait of step 8: "admin user creation"
label_admin ==
  <<"a", "d", "m", "i", "n", " ", "u", "s", "e", "r", " ", "c", "r", "e",
    "a", "t", "i", "o", "n">>

\* the label of the wait of step 9: "final verification"
label_final ==
  <<"f", "i", "n", "a", "l", " ", "v", "e", "r", "i", "f", "i", "c", "a",
    "t", "i", "o", "n">>

\* the operation argument of the wait_for_operation call of progress step s
Operation(s) == CASE s = 7 -> label_services
                  [] s = 8 -> label_admin
                  [] s = 9 -> label_final
                  [] OTHER -> <<>>

\* labels show_menu can be given besides those of main
\* "package manager"
label_package_manager ==
  <<"p", "a", "c", "k", "a", "g", "e", " ", "m", "a", "n", "a", "g", "e",
    "r">>
\* "Docker": matched through lower()
label_Docker ==
  <<"D", "o", "c", "k", "e", "r">>
\* "certbot"
label_certbot ==
  <<"c", "e", "r", "t", "b", "o", "t">>
\* "Conduwuit"
label_Conduwuit ==
  <<"C", "o", "n", "d", "u", "w", "u", "i", "t">>
\* "docker package manager": two categories
label_docker_package_manager ==
  <<"d", "o", "c", "k", "e", "r", " ", "p", "a", "c", "k", "a", "g", "e",
    " ", "m", "a", "n", "a", "g", "e", "r">>
\* "certbot docker": two categories
label_certbot_docker ==
  <<"c", "e", "r", "t", "b", "o", "t", " ", "d", "o", "c", "k", "e", "r">>
\* "conduwuit certbot": two categories
label_conduwuit_certbot ==
  <<"c", "o", "n", "d", "u", "w", "u", "i", "t", " ", "c", "e", "r", "t",
    "b", "o", "t">>
\* "packagemanager": no category (no blank)
label_packagemanager ==
  <<"p", "a", "c", "k", "a", "g", "e", "m", "a", "n", "a", "g", "e", "r">>
\* the empty label
label_empty ==
  <<>>

MenuLabels ==
  {label_services, label_admin, label_final, label_package_manager,
   label_Docker, label_certbot, label_Conduwuit,
   label_docker_package_manager, label_certbot_docker,
   label_conduwuit_certbot, label_packagemanager, label_empty}

\* the categories _attempt_fix looks for in the label
kw_package_manager ==
  <<"p", "a", "c", "k", "a", "g", "e", " ", "m", "a", "n", "a", "g", "e", "r">>
kw_docker == <<"d", "o", "c", "k", "e", "r">>
kw_certbot == <<"c", "e", "r", "t", "b", "o", "t">>
kw_conduwuit == <<"c", "o", "n", "d", "u", "w", "u", "i", "t">>

UpperCase ==
  <<"A", "B", "C", "D", "E", "F", "G", "H", "I", "J", "K", "L", "M", "N", "O",
    "P", "Q", "R", "S", "T", "U", "V", "W", "X", "Y", "Z">>
LowerCase ==
  <<"a", "b", "c", "d", "e", "f", "g", "h", "i", "j", "k", "l", "m", "n", "o",
    "p", "q", "r", "s", "t", "u", "v", "w", "x", "y", "z">>

\* str.lower() of one character
LowerChar(c) ==
  IF \E k \in 1..Len(UpperCase) : UpperCase[k] = c
  THEN LowerCase[CHOOSE k \in 1..Len(UpperCase) : UpperCase[k] = c]
  ELSE c

\* context.lower()
LowerStr(str) == [k \in 1..Len(str) |-> LowerChar(str[k])]

\* needle in hay
Contains(hay, needle) ==
  \E k \in 0..(Len(hay) - Len(needle)) :
     SubSeq(hay, k + 1, k + Len(needle)) = needle

\* the external commands each menu routine runs
DiagnosticsCommands ==
  {"docker-compose ps", "logs_cmd", "free -h", "df -h", "docker system df",
   "docker info", "netstat -tulpn"}
GeneralFixCommands ==
  {"chmod -R 755 /opt/conduwuit", "chown -R root:root /opt/conduwuit",
   "docker system prune -f", "docker-compose down",
   "docker-compose up -d --force-recreate", "docker-compose ps"}
PackageManagerFixCommands ==
  {"pkill unattended-upgr", "pkill apt-get", "pkill dpkg",
   "check_and_fix_locks", "dpkg --configure -a"}
DockerRestartCommands ==
  {"systemctl restart docker", "systemctl is-active docker"}
DockerRecreateCommands ==
  {"docker system prune -f", "docker-compose down",
   "docker-compose up -d --force-recreate"}
CertbotFixCommands ==
  {"snap remove certbot", "snap install --classic certbot",
   "ln -sf /snap/bin/certbot /usr/bin/certbot", "which certbot"}
ConduwuitStatusCommands == {"docker-compose ps"}
ConduwuitRecreateCommands ==
  {"docker system prune -f", "docker-compose logs conduwuit --tail=50",
   "docker-compose down", "docker-compose up -d --force-recreate"}
ConduwuitLogFixCommands ==
  [permission |-> {"chmod -R 755 /opt/conduwuit/data",
                   "chown -R root:root /opt/conduwuit/data"},
   connection |-> {"docker network prune -f", "docker-compose up -d"},
   nofile |-> {"mkdir -p /opt/conduwuit/data", "mkdir -p /opt/conduwuit/certs",
               "chmod -R 755 /opt/conduwuit"},
   config |-> {},
   other |-> {}]
ConduwuitCurlCommands == {"curl localhost:8000/_matrix/client/versions"}

\* _show_manual_intervention restarting the services it tells about
ManualInterventionCommands_Restarts == {"docker-compose restart"}

\* _show_manual_intervention runs no command: it prints and waits for Enter
ManualInterventionCommands == {}

VARIABLES
  pc,              \* position of the main thread
  outcome,         \* "running", "success" (exit status 0) or "fail" (sys.exit(1))
  exitSite,        \* where sys.exit(1) was called, "none" while running
  current_step,    \* progress.current_step
  reported,        \* ordinals printed by show_progress, in order
  stop_spinner,    \* progress._stop_spinner
  i,               \* loop variable of the for loop being run
  rc,              \* returncode of the last command of a retry loop (-1: none)
  retry,           \* retry loop being run: "none", "certbot", "docker", "ssl"
  calls,           \* invocations of the retried operation in that loop
  fails,           \* failed invocations of the retried operation in that loop
  cert,            \* get_ssl_certificate call: 0 none, 1 domain, 2 turn_domain
  clk,             \* time.time() - start_time of the running wait loop
  elapsed,         \* elapsed of the service wait (taken before the check)
  locks_found,     \* install_docker: lock files of the last snapshot
  procs_found,     \* install_docker: processes of the last snapshot
  wfoResult,       \* return value of wait_for_operation: "none", "true", "false"
  lastCheck,       \* last value of the wait's predicate: "none", "true", "false"
  menus,           \* times the wait invoked the menu / prompt
  otherChoice,     \* an answer other than "continue" was given in this wait
  polledSinceMenu, \* predicate evaluated since the menu last returned
  menuDepth,       \* nesting depth of show_menu (0: not in the menu)
  menuOps,         \* diagnostics / fix routines run in this menu session
  menuResult,      \* return value of show_menu: "none", "true", "false"
  choice,          \* last menu choice read
  confirm,         \* last answer to "Are you sure you want to cancel?"
  failedStep,      \* step whose operation failed unrecoverably (0: none)
  opStep,          \* step of the last operation invoked
  context,         \* show_menu's context label (<<>>: not in the menu)
  ran,             \* fix routines run by the _attempt_fix call in progress
  fixResult,       \* return value of _attempt_fix: "none", "true", "false"
  cmds,            \* external commands run by the menu in this session
  autoFixes,       \* lock wait: automatic fixes attempted
  prompts,         \* lock wait: times the operator answered the options
  same,            \* lock wait: polls in a row with the same blockers
  head,            \* lock wait: <<locks, procs>> of the last poll (<<>>:
                   \* none, or an automatic fix was run since)
  forced,          \* lock wait: forced commands run in this iteration
  final1,          \* check after the lock wait: first check_package_locks()
  final2,          \* check after the lock wait: second check_package_locks()
  spinner,         \* the thread started by the latest start_spinner()
  stale,           \* a thread of an earlier start_spinner() is still alive
  command,         \* run_command: the command and what the system does with it
  returned,        \* run_command: how the call ended
  port_probe,      \* the ports found listening by the latest port check
  svcHealthy,      \* service wait: last value of check_services
  compose,         \* the image lines of docker-compose.yml that the coming
                   \* "docker-compose up -d" reads
  pulls            \* the "docker pull" calls made so far, in order

vars == <<pc, outcome, exitSite, current_step, reported, stop_spinner, i, rc,
          retry, calls, fails, cert, clk, elapsed, locks_found, procs_found,
          wfoResult, lastCheck, menus, otherChoice, polledSinceMenu,
          menuDepth, menuOps, menuResult, choice, confirm, failedStep,
          opStep, context, ran, fixResult, cmds, autoFixes, prompts, same,
          head, forced, final1, final2, spinner, stale, command, returned,
          port_probe, svcHealthy, compose, pulls>>

progVars == <<current_step, reported>>
retryVars == <<i, rc, retry, calls, fails>>
lockVars == <<locks_found, procs_found>>
waitVars == <<wfoResult, lastCheck, menus, otherChoice, polledSinceMenu>>
menuVars == <<menuDepth, menuOps, menuResult, choice, confirm>>
exitVars == <<outcome, exitSite>>
fixVars == <<context, ran, fixResult, cmds>>
lockHist == <<autoFixes, prompts, same, head, forced, final1, final2>>
spinVars == <<spinner, stale>>
runVars == <<command, returned>>
imageVars == <<compose, pulls>>
mainVars == <<pc, exitVars, progVars, stop_spinner, retryVars, cert, clk,
              elapsed, lockVars, waitVars, menuVars, failedStep, opStep,
              fixVars, lockHist, runVars, port_probe, svcHealthy,
              imageVars>>

(* ------------- setup_conduwuit: the images of the two services ------- *)

\* an image reference "repo:tag"
Image(repo, tag) == [repo |-> repo, tag |-> tag]

\* conduwuit_images, in the order they are tried
conduwuit_images ==
  << Image("ghcr.io/girlbossceo/conduwuit", "v1.1.0"),
     Image("ghcr.io/girlbossceo/conduwuit", "latest"),
     Image("ghcr.io/girlbossceo/conduwuit", "stable"),
     Image("conduwuit/conduwuit", "latest") >>

\* coturn_images, in the order they are tried
coturn_images ==
  << Image("coturn/coturn", "4.6.2"),
     Image("coturn/coturn", "latest"),
     Image("coturn/coturn", "alpine") >>

\* no docker-compose.yml of this run (none written yet, or already used)
NoFile == [conduwuit |-> Image("", ""), coturn |-> Image("", "")]

\* the "image:" lines of the docker-compose.yml that setup_conduwuit writes
ComposeTemplate ==
  [conduwuit |-> Image("ghcr.io/girlbossceo/conduwuit", "v1.1.0"),
   coturn    |-> Image("coturn/coturn", "4.6.2")]

\* old_pattern: "image: <repo>:" followed by at least one character
old_pattern(service) ==
  IF service = "conduwuit" THEN "ghcr.io/girlbossceo/conduwuit"
  ELSE "coturn/coturn"

\* an update whose pattern matches no line: the file stays as it was
update_compose_image_NoMatch(content, service, image) == content

\* re.sub(old_pattern, f'image: {image}', content): every line the
\* pattern matches is replaced, every other line is kept
update_compose_image(content, service, image) ==
  [s \in DOMAIN content |->
     IF content[s].repo = old_pattern(service) /\ content[s].tag # ""
     THEN image ELSE content[s]]

\* one call of try_pull_image and what it returned
Pull(service, image, ok) == [service |-> service, image |-> image, ok |-> ok]

Delays == 0..MaxDelay

\* a clock that stands still
Adv_Stopped(c, d, lim) == c

\* the clock after d more seconds, saturating at lim
Adv(c, d, lim) == IF c + d > lim THEN lim ELSE c + d

Init ==
  /\ pc = "main_0"
  /\ outcome = "running"
  /\ exitSite = "none"
  /\ current_step = 0
  /\ reported = <<>>
  /\ stop_spinner = FALSE
  /\ i = 0
  /\ rc = -1
  /\ retry = "none"
  /\ calls = 0
  /\ fails = 0
  /\ cert = 0
  /\ clk = 0
  /\ elapsed = 0
  /\ locks_found = {}
  /\ procs_found = {}
  /\ wfoResult = "none"
  /\ lastCheck = "none"
  /\ menus = 0
  /\ otherChoice = FALSE
  /\ polledSinceMenu = FALSE
  /\ menuDepth = 0
  /\ menuOps = 0
  /\ menuResult = "none"
  /\ choice = "none"
  /\ confirm = "none"
  /\ failedStep = 0
  /\ opStep = 0
  /\ context = <<>>
  /\ ran = <<>>
  /\ fixResult = "none"
  /\ cmds = {}
  /\ autoFixes = 0
  /\ prompts = 0
  /\ same = 0
  /\ head = <<>>
  /\ forced = {}
  /\ final1 = <<>>
  /\ final2 = <<>>
  /\ spinner = "none"
  /\ stale = FALSE
  /\ command = [launch |-> "none"]
  /\ returned = [kind |-> "none"]
  /\ port_probe = {}
  /\ svcHealthy = "none"
  /\ compose = NoFile
  /\ pulls = <<>>

(* ------------------------------ helpers ------------------------------- *)

\* an exit at `site` that reports success
SysExit_ReportsSuccess(site) ==
  /\ pc' = "exited"
  /\ outcome' = "success"
  /\ exitSite' = site

\* sys.exit(1) at `site`
SysExit(site) ==
  /\ pc' = "exited"
  /\ outcome' = "fail"
  /\ exitSite' = site

\* sys.exit(1) at `site` because the operation of the current step failed
Fatal(site) ==
  /\ SysExit(site)
  /\ failedStep' = current_step

\* update_step printing before it stores the new step
update_step_Stale(step) ==
  /\ current_step' = step
  /\ reported' = Append(reported, current_step)

\* InstallationProgress.update_step(step, operation)
update_step(step) ==
  /\ current_step' = step
  /\ reported' = Append(reported, step)

\* a main whose step 2 starts with the installation of Docker
FirstOp_RuntimeFirst(step) ==
  CASE step = 0 -> "main_1"
    [] step = 1 -> "check_root"
    [] step = 2 -> "lock_loop"
    [] step = 3 -> "lock_loop"
    [] step = 4 -> "docker_compose"
    [] step = 5 -> "user_input"
    [] step = 6 -> "setup_files"
    [] step = 7 -> "wfo_start"
    [] step = 8 -> "wfo_start"
    [] step = 9 -> "wfo_start"
    [] OTHER -> "final_prompt"

\* the position main continues at after update_step(step)
FirstOp(step) ==
  CASE step = 0 -> "main_1"
    [] step = 1 -> "check_root"
    [] step = 2 -> "apt_update"
    [] step = 3 -> "lock_loop"
    [] step = 4 -> "docker_compose"
    [] step = 5 -> "user_input"
    [] step = 6 -> "setup_files"
    [] step = 7 -> "wfo_start"
    [] step = 8 -> "wfo_start"
    [] step = 9 -> "wfo_start"
    [] OTHER -> "final_prompt"

\* a main whose step 9 header reports ordinal 0 again
StepOfPc_Restarts(p) ==
  CASE p = "main_0" -> 0 [] p = "main_1" -> 1 [] p = "main_2" -> 2
    [] p = "main_3" -> 3 [] p = "main_4" -> 4 [] p = "main_5" -> 5
    [] p = "main_6" -> 6 [] p = "main_7" -> 7 [] p = "main_8" -> 8
    [] p = "main_9" -> 0 [] p = "main_10" -> 10 [] OTHER -> -1

StepOfPc(p) ==
  CASE p = "main_0" -> 0 [] p = "main_1" -> 1 [] p = "main_2" -> 2
    [] p = "main_3" -> 3 [] p = "main_4" -> 4 [] p = "main_5" -> 5
    [] p = "main_6" -> 6 [] p = "main_7" -> 7 [] p = "main_8" -> 8
    [] p = "main_9" -> 9 [] p = "main_10" -> 10 [] OTHER -> -1

MainPc(step) ==
  CASE step = 1 -> "main_1" [] step = 2 -> "main_2" [] step = 3 -> "main_3"
    [] step = 4 -> "main_4" [] step = 5 -> "main_5" [] step = 6 -> "main_6"
    [] step = 7 -> "main_7" [] step = 8 -> "main_8" [] step = 9 -> "main_9"
    [] OTHER -> "main_10"

(* ------------------------- main: step headers ------------------------- *)

\* progress.update_step(k, ...) at the head of each step of main
MainUpdateStep ==
  /\ StepOfPc(pc) >= 0
  /\ update_step(StepOfPc(pc))
  /\ pc' = FirstOp(StepOfPc(pc))
  /\ port_probe' = {}
  /\ rc' = -1
  /\ svcHealthy' = "none"
  /\ UNCHANGED <<exitVars, stop_spinner, i, retry, calls, fails, cert, clk,
                 elapsed, lockVars, waitVars, menuVars, failedStep, opStep,
                 fixVars, lockHist, spinVars, runVars, imageVars>>

(* ------------------------ step 1: system checks ----------------------- *)

CheckRoot ==
  /\ pc = "check_root"
  /\ opStep' = 1
  /\ \E ok \in BOOLEAN :
       IF ok THEN /\ pc' = "check_system"
                  /\ UNCHANGED <<exitVars, failedStep>>
             ELSE Fatal("check_root")
  /\ UNCHANGED <<progVars, stop_spinner, retryVars, cert, clk, elapsed,
                 lockVars, waitVars, menuVars, fixVars, lockHist, spinVars,
                 runVars, port_probe, svcHealthy, imageVars>>

CheckSystem ==
  /\ pc = "check_system"
  /\ opStep' = 1
  /\ \E ok \in BOOLEAN :
       IF ok THEN /\ pc' = "check_ports"
                  /\ UNCHANGED <<exitVars, failedStep>>
             ELSE Fatal("check_system")
  /\ UNCHANGED <<progVars, stop_spinner, retryVars, cert, clk, elapsed,
                 lockVars, waitVars, menuVars, fixVars, lockHist, spinVars,
                 runVars, port_probe, svcHealthy, imageVars>>

\* the required ports without the relay range
ports_WithoutRelay == {80, 443, 3478}

\* check_ports: ports = [80, 443, 3478] + list(range(49152, 49252))
ports == {80, 443, 3478} \cup (49152..49251)

\* what is listening on 127.0.0.1 when a check probes: nothing, or one port,
\* a required one or another one (ssh, the TURN TLS port, the port after the
\* relay range)
Listening ==
  {{}} \cup {{p} : p \in {22, 80, 443, 3478, 5349} \cup (49152..49252)}

\* sock.connect_ex(('127.0.0.1', port)): 0 when the connection is accepted,
\* ECONNREFUSED otherwise
connect_ex(port, listening) == IF port \in listening THEN 0 ELSE 111

\* for port in ports: ... if result == 0: print_error(...); sys.exit(1)
CheckPorts ==
  /\ pc = "check_ports"
  /\ opStep' = 1
  /\ \E listening \in Listening :
       /\ port_probe' = listening
       /\ IF \E port \in ports : connect_ex(port, listening) = 0
          THEN Fatal("check_ports")
          ELSE /\ pc' = MainPc(2)
               /\ UNCHANGED <<exitVars, failedStep>>
  /\ UNCHANGED <<progVars, stop_spinner, retryVars, cert, clk, elapsed,
                 lockVars, waitVars, menuVars, fixVars, lockHist, spinVars,
                 runVars, svcHealthy, imageVars>>

(* ----------------------- the retry loops' decision -------------------- *)

\* a loop that gives up one attempt early
RetryDecision_GivesUpEarly(r, idx, maxr) ==
  IF r = 0 THEN "break"
  ELSE IF idx < maxr - 2 THEN "retry"
  ELSE "exit"

\* a loop that falls through to its caller when the attempts are used up
RetryDecision_ReturnsLast(r, idx, maxr) ==
  IF r = 0 THEN "break"
  ELSE IF idx < maxr - 1 THEN "retry"
  ELSE "break"

\* what `for i in range(max_retries)` does with the returncode r of attempt
\* idx: break on success, sleep and retry while attempts remain, else
\* sys.exit(1) inside the loop
RetryDecision(r, idx, maxr) ==
  IF r = 0 THEN "break"
  ELSE IF idx < maxr - 1 THEN "retry"
  ELSE "exit"

\* one iteration of a retry loop: the operation returned r
RetryIteration(r, maxr, site, nextPc) ==
  /\ rc' = r
  /\ calls' = calls + 1
  /\ fails' = IF r = 0 THEN fails ELSE fails + 1
  /\ UNCHANGED retry
  /\ CASE RetryDecision(r, i, maxr) = "break" ->
            /\ pc' = nextPc
            /\ UNCHANGED <<i, exitVars, failedStep>>
       [] RetryDecision(r, i, maxr) = "retry" ->
            /\ i' = i + 1
            /\ UNCHANGED <<pc, exitVars, failedStep>>
       [] OTHER ->
            /\ Fatal(site)
            /\ UNCHANGED i

\* entering a retry loop
EnterRetry(name) ==
  /\ retry' = name
  /\ i' = 0
  /\ rc' = -1
  /\ calls' = 0
  /\ fails' = 0

\* the function holding the loop returns: its locals are gone
LeaveRetry ==
  /\ retry' = "none"
  /\ i' = 0
  /\ rc' = -1
  /\ calls' = 0
  /\ fails' = 0

(* --------------------- step 2: install_packages ----------------------- *)

\* rm certbot repositories, apt-get update: a failure is only a warning
AptUpdate ==
  /\ pc = "apt_update"
  /\ opStep' = 2
  /\ pc' = "apt_install"
  /\ UNCHANGED <<exitVars, progVars, stop_spinner, retryVars, cert, clk,
                 elapsed, lockVars, waitVars, menuVars, failedStep, fixVars,
                 lockHist, spinVars, runVars, port_probe, svcHealthy,
                 imageVars>>

\* apt-get install of the basic packages (fatal), snapd start, certbot removal
AptInstall ==
  /\ pc = "apt_install"
  /\ opStep' = 2
  /\ \E r \in {0, 1} :
       IF r # 0 THEN /\ Fatal("apt_install")
                     /\ UNCHANGED retryVars
                ELSE /\ pc' = "certbot_try"
                     /\ EnterRetry("certbot")
                     /\ UNCHANGED <<exitVars, failedStep>>
  /\ UNCHANGED <<progVars, stop_spinner, cert, clk, elapsed, lockVars,
                 waitVars, menuVars, fixVars, lockHist, spinVars, runVars,
                 port_probe, svcHealthy, imageVars>>

\* one attempt of `snap install --classic certbot`
CertbotAttempt ==
  /\ pc = "certbot_try"
  /\ opStep' = 2
  /\ \E r \in {0, 1} :
       RetryIteration(r, max_retries_certbot, "certbot_retry", "certbot_verify")
  /\ UNCHANGED <<progVars, stop_spinner, cert, clk, elapsed, lockVars,
                 waitVars, menuVars, fixVars, lockHist, spinVars, runVars,
                 port_probe, svcHealthy, imageVars>>

\* symlink and `which certbot`
CertbotVerify ==
  /\ pc = "certbot_verify"
  /\ opStep' = 2
  /\ \E r \in {0, 1} :
       IF r # 0 THEN /\ Fatal("certbot_verify")
                     /\ UNCHANGED retryVars
                ELSE /\ pc' = MainPc(3)
                     /\ LeaveRetry
                     /\ UNCHANGED <<exitVars, failedStep>>
  /\ UNCHANGED <<progVars, stop_spinner, cert, clk, elapsed, lockVars,
                 waitVars, menuVars, fixVars, lockHist, spinVars, runVars,
                 port_probe, svcHealthy, imageVars>>

(* ------------- step 3: install_docker, package-lock wait -------------- *)

total_checks == lock_max_wait_time \div lock_check_interval

Blocked(locks, procs) == locks # {} \/ procs # {}

\* the commands of the "more aggressive fix"
ForcedCommands ==
  {"killall -9 apt apt-get dpkg unattended-upgr",
   "rm -f /var/lib/dpkg/lock* /var/lib/apt/lists/lock",
   "dpkg --configure -a"}

\* start_time = time.time()
LockStart ==
  /\ pc = "lock_loop"
  /\ clk' = 0
  /\ i' = 0
  /\ pc' = "lock_poll"
  /\ UNCHANGED <<exitVars, progVars, stop_spinner, rc, retry, calls, fails,
                 cert, elapsed, lockVars, waitVars, menuVars, failedStep,
                 opStep, fixVars, lockHist, spinVars, runVars, port_probe,
                 svcHealthy, imageVars>>

\* for i in range(total_checks) is used up
LockLoopEnd ==
  /\ pc = "lock_poll"
  /\ i >= total_checks
  /\ pc' = "lock_final"
  /\ UNCHANGED <<exitVars, progVars, stop_spinner, retryVars, cert, clk,
                 elapsed, lockVars, waitVars, menuVars, failedStep, opStep,
                 fixVars, lockHist, spinVars, runVars, port_probe, svcHealthy,
                 imageVars>>

\* a poll that goes on waiting when it finds nothing
LockPollDecision_KeepsWaiting(locks, procs, t) ==
  IF t > auto_fix_threshold THEN "fix" ELSE "sleep"

\* a poll that asks the operator before it tries the automatic fix
LockPollDecision_AsksFirst(locks, procs, t) ==
  IF ~Blocked(locks, procs) THEN "break"
  ELSE IF t > auto_fix_threshold THEN "prompt"
  ELSE "sleep"

\* what one iteration does with its snapshot at current_time t: break when
\* nothing is found, the automatic fix past the threshold, otherwise sleep
LockPollDecision(locks, procs, t) ==
  IF ~Blocked(locks, procs) THEN "break"
  ELSE IF t > auto_fix_threshold THEN "fix"
  ELSE "sleep"

\* where the iteration goes on after the decision d
LockPc(d) ==
  CASE d = "break" -> "lock_final"
    [] d = "fix" -> "lock_fix"
    [] d = "prompt" -> "lock_prompt"
    [] OTHER -> "lock_sleep"

\* one poll: current_time is read before check_package_locks()
LockPoll ==
  /\ pc = "lock_poll"
  /\ i < total_checks
  /\ opStep' = 3
  /\ \E locks \in SUBSET lock_files, procs \in SUBSET processes :
       /\ locks_found' = locks
       /\ procs_found' = procs
       /\ head' = <<locks, procs>>
       /\ same' = IF ~Blocked(locks, procs) THEN 0
                  ELSE IF head = <<locks, procs>> THEN same + 1
                  ELSE 1
       /\ pc' = LockPc(LockPollDecision(locks, procs, clk))
  /\ UNCHANGED <<exitVars, progVars, stop_spinner, retryVars, cert, clk,
                 elapsed, waitVars, menuVars, failedStep, fixVars, autoFixes,
                 prompts, forced, final1, final2, spinVars, runVars,
                 port_probe, svcHealthy, imageVars>>

\* the automatic fix: kill each process found (sleep 1 after each one
\* killed), check_and_fix_locks(), sleep 2
LockAutoFix ==
  /\ pc = "lock_fix"
  /\ opStep' = 3
  /\ \E killed \in 0..Cardinality(procs_found) :
       clk' = Adv(clk, killed + 2, lock_max_wait_time)
  /\ autoFixes' = autoFixes + 1
  /\ head' = <<>>
  /\ pc' = "lock_recheck"
  /\ UNCHANGED <<exitVars, progVars, stop_spinner, retryVars, cert, elapsed,
                 lockVars, waitVars, menuVars, failedStep, fixVars, prompts,
                 same, forced, final1, final2, spinVars, runVars, port_probe,
                 svcHealthy, imageVars>>

\* a re-check that asks the operator whatever it finds
LockRecheckDecision_AlwaysAsks(locks, procs) == "prompt"

\* the snapshot after the automatic fix: break when nothing is found,
\* otherwise the three options are shown
LockRecheckDecision(locks, procs) ==
  IF ~Blocked(locks, procs) THEN "break" ELSE "prompt"

\* the snapshot taken after the automatic fix
LockRecheck ==
  /\ pc = "lock_recheck"
  /\ opStep' = 3
  /\ \E locks \in SUBSET lock_files, procs \in SUBSET processes :
       /\ locks_found' = locks
       /\ procs_found' = procs
       /\ pc' = LockPc(LockRecheckDecision(locks, procs))
  /\ UNCHANGED <<exitVars, progVars, stop_spinner, retryVars, cert, clk,
                 elapsed, waitVars, menuVars, failedStep, fixVars, lockHist,
                 spinVars, runVars, port_probe, svcHealthy, imageVars>>

\* a prompt that takes every unknown answer for the aggressive fix
LockChoice_ForcesByDefault(c) ==
  IF c = "1" THEN "wait"
  ELSE IF c = "3" THEN "exit"
  ELSE "force"

\* if choice == "2": ... elif choice == "3": ...; nothing else is tested
LockChoice(c) ==
  IF c = "2" THEN "force"
  ELSE IF c = "3" THEN "exit"
  ELSE "wait"

\* "Choose an option (1-3)": 2 forces the locks away, 3 exits, anything
\* else continues waiting
LockPrompt ==
  /\ pc = "lock_prompt"
  /\ prompts' = prompts + 1
  /\ \E c \in {"1", "2", "3", "x"}, d \in Delays :
       /\ choice' = c
       /\ CASE LockChoice(c) = "force" ->
                 /\ forced' = ForcedCommands
                 /\ clk' = Adv(clk, d + 5, lock_max_wait_time)
                 /\ pc' = "lock_sleep"
                 /\ UNCHANGED <<exitVars, failedStep>>
            [] LockChoice(c) = "exit" ->
                 /\ clk' = Adv(clk, d, lock_max_wait_time)
                 /\ Fatal("lock_cancel")
                 /\ UNCHANGED forced
            [] OTHER ->
                 /\ clk' = Adv(clk, d, lock_max_wait_time)
                 /\ pc' = "lock_sleep"
                 /\ UNCHANGED <<exitVars, failedStep, forced>>
  /\ UNCHANGED <<progVars, stop_spinner, retryVars, cert, elapsed, lockVars,
                 waitVars, menuDepth, menuOps, menuResult, confirm, opStep,
                 fixVars, autoFixes, same, head, final1, final2, spinVars,
                 runVars, port_probe, svcHealthy, imageVars>>

\* time.sleep(check_interval) at the end of the loop body; the next
\* iteration assigns locks_found, procs_found and choice before reading them
LockSleep ==
  /\ pc = "lock_sleep"
  /\ clk' = Adv(clk, lock_check_interval, lock_max_wait_time)
  /\ i' = i + 1
  /\ locks_found' = {}
  /\ procs_found' = {}
  /\ choice' = "none"
  /\ forced' = {}
  /\ pc' = "lock_poll"
  /\ UNCHANGED <<exitVars, progVars, stop_spinner, rc, retry, calls, fails,
                 cert, elapsed, waitVars, menuDepth, menuOps, menuResult,
                 confirm, failedStep, opStep, fixVars, autoFixes, prompts,
                 same, head, final1, final2, spinVars, runVars, port_probe,
                 svcHealthy, imageVars>>

\* the check after the loop, `check_package_locks()[0] or
\* check_package_locks()[1]`: the first call's snapshot, of which only the
\* lock files are looked at; a lock file found ends the run without a
\* second call
LockFinalCheck ==
  /\ pc = "lock_final"
  /\ opStep' = 3
  /\ \E locks1 \in SUBSET lock_files, procs1 \in SUBSET processes :
       IF locks1 # {}
       THEN /\ Fatal("lock_timeout")
            /\ UNCHANGED final1
       ELSE /\ pc' = "lock_final2"
            /\ final1' = <<locks1, procs1>>
            /\ UNCHANGED <<exitVars, failedStep>>
  /\ UNCHANGED <<progVars, stop_spinner, retryVars, cert, clk, elapsed,
                 lockVars, waitVars, menuVars, fixVars, autoFixes, prompts,
                 same, head, forced, final2, spinVars, runVars, port_probe,
                 svcHealthy, imageVars>>

\* the second call's snapshot, of which only the processes are looked at:
\* a process found ends the run, otherwise install_docker goes on to the
\* download
LockFinalCheck2 ==
  /\ pc = "lock_final2"
  /\ opStep' = 3
  /\ \E locks2 \in SUBSET lock_files, procs2 \in SUBSET processes :
       IF procs2 # {}
       THEN /\ Fatal("lock_timeout")
            /\ final1' = <<>>
            /\ UNCHANGED <<i, clk, lockVars, choice, autoFixes, prompts,
                           same, head, forced, final2>>
       ELSE /\ pc' = "docker_download"
            /\ final2' = <<locks2, procs2>>
            /\ i' = 0
            /\ clk' = 0
            /\ locks_found' = {}
            /\ procs_found' = {}
            /\ choice' = "none"
            /\ autoFixes' = 0
            /\ prompts' = 0
            /\ same' = 0
            /\ head' = <<>>
            /\ forced' = {}
            /\ UNCHANGED <<exitVars, failedStep, final1>>
  /\ UNCHANGED <<progVars, stop_spinner, rc, retry, calls, fails, cert,
                 elapsed, waitVars, menuDepth, menuOps, menuResult, confirm,
                 fixVars, spinVars, runVars, port_probe, svcHealthy,
                 imageVars>>

(* -------------- step 3: install_docker, installation ------------------ *)

\* urllib.request.urlretrieve("https://get.docker.com", ...)
DockerDownload ==
  /\ pc = "docker_download"
  /\ opStep' = 3
  /\ \E ok \in BOOLEAN :
       IF ok THEN /\ pc' = "docker_try"
                  /\ EnterRetry("docker")
                  /\ UNCHANGED <<exitVars, failedStep>>
             ELSE /\ Fatal("docker_download")
                  /\ UNCHANGED retryVars
  /\ final1' = <<>>
  /\ final2' = <<>>
  /\ UNCHANGED <<progVars, stop_spinner, cert, clk, elapsed, lockVars,
                 waitVars, menuVars, fixVars, autoFixes, prompts, same, head,
                 forced, spinVars, runVars, port_probe, svcHealthy,
                 imageVars>>

\* one attempt of `sh get-docker.sh`
DockerAttempt ==
  /\ pc = "docker_try"
  /\ opStep' = 3
  /\ \E r \in {0, 1} :
       RetryIteration(r, max_retries_docker, "docker_retry", "docker_service")
  /\ UNCHANGED <<progVars, stop_spinner, cert, clk, elapsed, lockVars,
                 waitVars, menuVars, fixVars, lockHist, spinVars, runVars,
                 port_probe, svcHealthy, imageVars>>

\* leaving the retry loop for the service-start loop: for i in range(max_wait)
DockerServiceLoop ==
  /\ pc = "docker_service"
  /\ LeaveRetry
  /\ pc' = "docker_active"
  /\ UNCHANGED <<exitVars, progVars, stop_spinner, cert, clk, elapsed,
                 lockVars, waitVars, menuVars, failedStep, opStep, fixVars,
                 lockHist, spinVars, runVars, port_probe, svcHealthy,
                 imageVars>>

\* `systemctl is-active docker`; on failure `systemctl start docker`, sleep 1;
\* the loop's else clause exits
DockerServiceStart ==
  /\ pc = "docker_active"
  /\ opStep' = 3
  /\ \E r \in {0, 1} :
       IF r = 0
       THEN /\ pc' = MainPc(4)
            /\ i' = 0
            /\ UNCHANGED <<exitVars, failedStep>>
       ELSE IF i + 1 < docker_max_wait
       THEN /\ i' = i + 1
            /\ UNCHANGED <<pc, exitVars, failedStep>>
       ELSE /\ Fatal("docker_service")
            /\ UNCHANGED i
  /\ UNCHANGED <<progVars, stop_spinner, rc, retry, calls, fails, cert, clk,
                 elapsed, lockVars, waitVars, menuVars, fixVars, lockHist,
                 spinVars, runVars, port_probe, svcHealthy, imageVars>>

(* ------------------ step 4: install_docker_compose -------------------- *)

\* urlretrieve / chmod raise on failure: main's `except Exception` exits
InstallDockerCompose ==
  /\ pc = "docker_compose"
  /\ opStep' = 4
  /\ \E raised \in BOOLEAN :
       IF raised THEN Fatal("main_except")
                 ELSE /\ pc' = MainPc(5)
                      /\ UNCHANGED <<exitVars, failedStep>>
  /\ UNCHANGED <<progVars, stop_spinner, retryVars, cert, clk, elapsed,
                 lockVars, waitVars, menuVars, fixVars, lockHist, spinVars,
                 runVars, port_probe, svcHealthy, imageVars>>

(* ----------------------- step 5: get_user_input ----------------------- *)

\* the operator may decline "Continue anyway?", which exits
GetUserInput ==
  /\ pc = "user_input"
  /\ opStep' = 5
  /\ \E declined \in BOOLEAN :
       IF declined THEN Fatal("user_input")
                   ELSE /\ pc' = MainPc(6)
                        /\ UNCHANGED <<exitVars, failedStep>>
  /\ UNCHANGED <<progVars, stop_spinner, retryVars, cert, clk, elapsed,
                 lockVars, waitVars, menuVars, fixVars, lockHist, spinVars,
                 runVars, port_probe, svcHealthy, imageVars>>

(* ---------------------- step 6: setup_conduwuit ----------------------- *)

\* mkdir, chdir and the three configuration files; an OSError reaches main
SetupFiles ==
  /\ pc = "setup_files"
  /\ opStep' = 6
  /\ \E raised \in BOOLEAN :
       IF raised THEN /\ Fatal("main_except")
                      /\ UNCHANGED cert
                 ELSE /\ pc' = "ssl_port"
                      /\ cert' = 1
                      /\ UNCHANGED <<exitVars, failedStep>>
  /\ compose' = ComposeTemplate
  /\ UNCHANGED <<progVars, stop_spinner, retryVars, clk, elapsed, lockVars,
                 waitVars, menuVars, fixVars, lockHist, spinVars, runVars,
                 port_probe, svcHealthy, pulls>>

\* get_ssl_certificate: stop services, port 80 must be free
SslPortCheck ==
  /\ pc = "ssl_port"
  /\ opStep' = 6
  /\ \E listening \in {{}, {80}} :
       /\ port_probe' = listening
       /\ IF connect_ex(80, listening) = 0
          THEN /\ Fatal("ssl_port")
               /\ UNCHANGED retryVars
          ELSE /\ pc' = "ssl_try"
               /\ EnterRetry("ssl")
               /\ UNCHANGED <<exitVars, failedStep>>
  /\ UNCHANGED <<progVars, stop_spinner, cert, clk, elapsed, lockVars,
                 waitVars, menuVars, fixVars, lockHist, spinVars, runVars,
                 svcHealthy, imageVars>>

\* one iteration: `which certbot` (exits when missing), then certbot certonly
SslAttempt ==
  /\ pc = "ssl_try"
  /\ opStep' = 6
  /\ \E which \in {0, 1}, r \in {0, 1} :
       IF which # 0
       THEN /\ Fatal("ssl_which")
            /\ UNCHANGED retryVars
       ELSE RetryIteration(r, max_retries_ssl, "ssl_retry", "ssl_verify")
  /\ UNCHANGED <<progVars, stop_spinner, cert, clk, elapsed, lockVars,
                 waitVars, menuVars, fixVars, lockHist, spinVars, runVars,
                 port_probe, svcHealthy, imageVars>>

\* fullchain.pem and privkey.pem must exist; then the function returns
SslVerify ==
  /\ pc = "ssl_verify"
  /\ opStep' = 6
  /\ \E present \in BOOLEAN :
       IF ~present
       THEN /\ Fatal("ssl_files")
            /\ UNCHANGED <<retryVars, cert>>
       ELSE /\ LeaveRetry
            /\ cert' = IF cert = 1 THEN 2 ELSE 0
            /\ pc' = IF cert = 1 THEN "ssl_port" ELSE "copy_certs"
            /\ UNCHANGED <<exitVars, failedStep>>
  /\ UNCHANGED <<progVars, stop_spinner, clk, elapsed, lockVars, waitVars,
                 menuVars, fixVars, lockHist, spinVars, runVars, port_probe,
                 svcHealthy, imageVars>>

\* shutil.copy of the certificate files, inside try/except
CopyCerts ==
  /\ pc = "copy_certs"
  /\ opStep' = 6
  /\ \E raised \in BOOLEAN :
       IF raised THEN Fatal("copy_certs")
                 ELSE /\ pc' = "pull_conduwuit"
                      /\ UNCHANGED <<exitVars, failedStep>>
  /\ UNCHANGED <<progVars, stop_spinner, retryVars, cert, clk, elapsed,
                 lockVars, waitVars, menuVars, fixVars, lockHist, spinVars,
                 runVars, port_probe, svcHealthy, imageVars>>

\* for image in conduwuit_images: the first pull that succeeds ends the loop
PullConduwuit ==
  /\ pc = "pull_conduwuit"
  /\ opStep' = 6
  /\ \E pulled \in BOOLEAN :
       LET image == conduwuit_images[i + 1] IN
       /\ pulls' = Append(pulls, Pull("conduwuit", image, pulled))
       /\ IF pulled
          THEN /\ compose' = update_compose_image(compose, "conduwuit", image)
               /\ pc' = "pull_coturn"
               /\ i' = 0
               /\ UNCHANGED <<exitVars, failedStep>>
          ELSE IF i + 1 < num_conduwuit_images
          THEN /\ i' = i + 1
               /\ UNCHANGED <<pc, exitVars, failedStep, compose>>
          ELSE /\ Fatal("pull_conduwuit")
               /\ UNCHANGED <<i, compose>>
  /\ UNCHANGED <<progVars, stop_spinner, rc, retry, calls, fails, cert, clk,
                 elapsed, lockVars, waitVars, menuVars, fixVars, lockHist,
                 spinVars, runVars, port_probe, svcHealthy>>

\* for image in coturn_images
PullCoturn ==
  /\ pc = "pull_coturn"
  /\ opStep' = 6
  /\ \E pulled \in BOOLEAN :
       LET image == coturn_images[i + 1] IN
       /\ pulls' = Append(pulls, Pull("coturn", image, pulled))
       /\ IF pulled
          THEN /\ compose' = update_compose_image(compose, "coturn", image)
               /\ pc' = "compose_up"
               /\ i' = 0
               /\ UNCHANGED <<exitVars, failedStep>>
          ELSE IF i + 1 < num_coturn_images
          THEN /\ i' = i + 1
               /\ UNCHANGED <<pc, exitVars, failedStep, compose>>
          ELSE /\ Fatal("pull_coturn")
               /\ UNCHANGED <<i, compose>>
  /\ UNCHANGED <<progVars, stop_spinner, rc, retry, calls, fails, cert, clk,
                 elapsed, lockVars, waitVars, menuVars, fixVars, lockHist,
                 spinVars, runVars, port_probe, svcHealthy>>

\* docker-compose down, docker-compose up -d (a failure is not fatal here),
\* start_time = time.time()
ComposeUp ==
  /\ pc = "compose_up"
  /\ opStep' = 6
  /\ \E r \in {0, 1} : rc' = r
  /\ clk' = 0
  /\ elapsed' = 0
  /\ lastCheck' = "none"
  /\ menus' = 0
  /\ otherChoice' = FALSE
  /\ pc' = "svc_loop"
  /\ compose' = NoFile
  /\ pulls' = <<>>
  /\ UNCHANGED <<exitVars, progVars, stop_spinner, i, retry, calls, fails,
                 cert, lockVars,
                 wfoResult, polledSinceMenu, menuVars, failedStep, fixVars,
                 lockHist, spinVars, runVars, port_probe, svcHealthy>>

(* ------------- step 6: setup_conduwuit, the service wait -------------- *)

\* if elapsed > max_wait_time // 2
SvcPastHalf(e) == e > svc_max_wait_time \div 2

\* while time.time() - start_time < max_wait_time: ... else: sys.exit(1)
SvcLoopTest ==
  /\ pc = "svc_loop"
  /\ IF clk < svc_max_wait_time
     THEN /\ pc' = "svc_poll"
          /\ UNCHANGED <<exitVars, failedStep>>
     ELSE Fatal("svc_timeout")
  /\ UNCHANGED <<progVars, stop_spinner, retryVars, cert, clk, elapsed,
                 lockVars, waitVars, menuVars, opStep, fixVars, lockHist,
                 spinVars, runVars, port_probe, svcHealthy, imageVars>>

\* a service wait that stops waiting once the options would be shown
SvcPollDecision_GivesUp(healthy, e) ==
  IF healthy \/ SvcPastHalf(e) THEN "break" ELSE "sleep"

\* one iteration of the service wait: healthy services break out of the
\* loop, otherwise the options are shown when more than half the time is used
SvcPollDecision(healthy, e) ==
  IF healthy THEN "break"
  ELSE IF SvcPastHalf(e) THEN "prompt"
  ELSE "sleep"

\* elapsed = int(time.time() - start_time), then check_services(); healthy
\* breaks out and setup_conduwuit returns; past half the budget the
\* troubleshooting options are shown
SvcPoll ==
  /\ pc = "svc_poll"
  /\ opStep' = 6
  /\ \E healthy \in BOOLEAN, d \in Delays :
       /\ clk' = Adv(clk, d, svc_max_wait_time)
       /\ svcHealthy' = IF healthy THEN "true" ELSE "false"
       /\ CASE SvcPollDecision(healthy, clk) = "break" ->
                 /\ pc' = MainPc(7)
                 /\ elapsed' = 0
                 /\ lastCheck' = "none"
                 /\ menus' = 0
                 /\ otherChoice' = FALSE
                 /\ choice' = "none"
            [] SvcPollDecision(healthy, clk) = "prompt" ->
                 /\ elapsed' = clk
                 /\ lastCheck' = "false"
                 /\ pc' = "svc_prompt"
                 /\ menus' = menus + 1
                 /\ UNCHANGED <<otherChoice, choice>>
            [] OTHER ->
                 /\ elapsed' = clk
                 /\ lastCheck' = "false"
                 /\ pc' = "svc_sleep"
                 /\ UNCHANGED <<otherChoice, choice, menus>>
  /\ UNCHANGED <<exitVars, progVars, stop_spinner, retryVars, cert, lockVars,
                 wfoResult, polledSinceMenu, menuDepth, menuOps, menuResult,
                 confirm, failedStep, fixVars, lockHist, spinVars, runVars,
                 port_probe, imageVars>>

\* "Choose an option (1-4)": 2 shows the logs, 3 recreates the containers,
\* 4 exits, anything else continues waiting
SvcPrompt ==
  /\ pc = "svc_prompt"
  /\ \E c \in {"1", "2", "3", "4", "x"}, d \in Delays :
       /\ choice' = c
       /\ clk' = Adv(clk, d, svc_max_wait_time)
       /\ otherChoice' = (otherChoice \/ c # "1")
       /\ IF c = "4"
          THEN Fatal("svc_cancel")
          ELSE /\ pc' = "svc_sleep"
               /\ UNCHANGED <<exitVars, failedStep>>
  /\ UNCHANGED <<progVars, stop_spinner, retryVars, cert, elapsed, lockVars,
                 wfoResult, lastCheck, menus, polledSinceMenu, menuDepth,
                 menuOps, menuResult, confirm, opStep, fixVars, lockHist,
                 spinVars, runVars, port_probe, svcHealthy, imageVars>>

\* time.sleep(check_interval)
SvcSleep ==
  /\ pc = "svc_sleep"
  /\ clk' = Adv(clk, svc_check_interval, svc_max_wait_time)
  /\ pc' = "svc_loop"
  /\ UNCHANGED <<exitVars, progVars, stop_spinner, retryVars, cert, elapsed,
                 lockVars, waitVars, menuVars, failedStep, opStep, fixVars,
                 lockHist, spinVars, runVars, port_probe, svcHealthy,
                 imageVars>>

(* ------------------------ wait_for_operation -------------------------- *)

\* the midpoint test with >= for >
WfoPastHalf_Inclusive(e, t) == e >= t \div 2

\* if time.time() - start_time > timeout // 2
WfoPastHalf(e, t) == e > t \div 2

\* the loop condition with <= for <
WfoInTime_Inclusive(e, t) == e <= t

\* while time.time() - start_time < timeout
WfoInTime(e, t) == e < t

\* start_time = time.time(); progress.start_spinner(...)
(* ------------------------- the spinner thread -------------------------- *)

\* start_spinner(): clears the stop flag and starts a new daemon thread on
\* _spin; a thread of an earlier start that has not ended goes on running
start_spinner ==
  /\ stop_spinner' = FALSE
  /\ stale' = (stale \/ spinner = "running")
  /\ spinner' = "running"

\* _spin in the thread started last: `while not self._stop_spinner` finds the
\* flag set and the thread ends (while the flag is clear an iteration prints
\* the status line and sleeps 0.1 s, which changes nothing recorded here)
SpinExit ==
  /\ outcome = "running"
  /\ stop_spinner
  /\ spinner = "running"
  /\ spinner' = "none"
  /\ UNCHANGED <<mainVars, stale>>

\* the same in the threads of earlier starts: the last of them ends
SpinStaleExit ==
  /\ outcome = "running"
  /\ stop_spinner
  /\ stale
  /\ stale' = FALSE
  /\ UNCHANGED <<mainVars, spinner>>

WfoStart ==
  /\ pc = "wfo_start"
  /\ clk' = 0
  /\ start_spinner
  /\ wfoResult' = "none"
  /\ lastCheck' = "none"
  /\ menus' = 0
  /\ otherChoice' = FALSE
  /\ polledSinceMenu' = FALSE
  /\ pc' = "wfo_loop"
  /\ UNCHANGED <<exitVars, progVars, retryVars, cert, elapsed, lockVars,
                 menuVars, failedStep, opStep, fixVars, lockHist, runVars,
                 port_probe, svcHealthy, imageVars>>

\* the while condition; when it fails: stop_spinner(), return False
WfoLoopTest ==
  /\ pc = "wfo_loop"
  /\ IF WfoInTime(clk, Timeout(current_step))
     THEN /\ pc' = "wfo_check"
          /\ UNCHANGED <<stop_spinner, wfoResult, failedStep>>
     ELSE /\ stop_spinner' = TRUE
          /\ wfoResult' = "false"
          /\ failedStep' = current_step
          /\ pc' = "wfo_ret"
  /\ UNCHANGED <<exitVars, progVars, retryVars, cert, clk, elapsed, lockVars,
                 lastCheck, menus, otherChoice, polledSinceMenu, menuVars,
                 opStep, fixVars, lockHist, spinVars, runVars, port_probe,
                 svcHealthy, imageVars>>

\* a poll that tests the midpoint before the predicate's value
WfoPollDecision_MidpointFirst(r, e, t) ==
  IF WfoPastHalf(e, t) THEN "menu"
  ELSE IF r THEN "return_true"
  ELSE "sleep"

\* what one poll does with the predicate's value r at elapsed time e
WfoPollDecision(r, e, t) ==
  IF r THEN "return_true"
  ELSE IF WfoPastHalf(e, t) THEN "menu"
  ELSE "sleep"

\* if check_func(): stop_spinner(); return True -- otherwise, past half the
\* timeout: stop_spinner(), status commands, troubleshoot.show_menu(...)
WfoCheck ==
  /\ pc = "wfo_check"
  /\ opStep' = current_step
  /\ \E r \in BOOLEAN, d \in Delays :
       /\ clk' = Adv(clk, d, Timeout(current_step))
       /\ lastCheck' = IF r THEN "true" ELSE "false"
       /\ polledSinceMenu' = TRUE
       /\ CASE WfoPollDecision(r, clk', Timeout(current_step)) = "return_true" ->
                 /\ stop_spinner' = TRUE
                 /\ wfoResult' = "true"
                 /\ pc' = "wfo_ret"
                 /\ UNCHANGED <<menus, menuDepth, menuOps, context>>
            [] WfoPollDecision(r, clk', Timeout(current_step)) = "menu" ->
                 /\ stop_spinner' = TRUE
                 /\ menus' = menus + 1
                 /\ menuDepth' = 1
                 /\ menuOps' = 0
                 /\ context' = Operation(current_step)
                 /\ pc' = "menu_prompt"
                 /\ UNCHANGED wfoResult
            [] OTHER ->
                 /\ pc' = "wfo_sleep"
                 /\ UNCHANGED <<stop_spinner, wfoResult, menus, menuDepth,
                                menuOps, context>>
  /\ UNCHANGED <<exitVars, progVars, retryVars, cert, elapsed, lockVars,
                 otherChoice, menuResult, choice, confirm, failedStep, ran,
                 fixResult, cmds, lockHist, spinVars, runVars, port_probe,
                 svcHealthy, imageVars>>

\* if not troubleshoot.show_menu(...): return False
\* progress.start_spinner("Continuing to wait ...")
WfoAfterMenu ==
  /\ pc = "wfo_resume"
  /\ IF menuResult = "false"
     THEN /\ wfoResult' = "false"
          /\ failedStep' = current_step
          /\ pc' = "wfo_ret"
          /\ UNCHANGED <<stop_spinner, polledSinceMenu, spinVars>>
     ELSE /\ start_spinner
          /\ polledSinceMenu' = FALSE
          /\ pc' = "wfo_sleep"
          /\ UNCHANGED <<wfoResult, failedStep>>
  /\ menuResult' = "none"
  /\ choice' = "none"
  /\ confirm' = "none"
  /\ context' = <<>>
  /\ cmds' = {}
  /\ UNCHANGED <<exitVars, progVars, retryVars, cert, clk, elapsed, lockVars,
                 lastCheck, menus, otherChoice, menuDepth, menuOps, opStep,
                 ran, fixResult, lockHist, runVars, port_probe, svcHealthy,
                 imageVars>>

\* time.sleep(check_interval)
WfoSleep ==
  /\ pc = "wfo_sleep"
  /\ clk' = Adv(clk, wfo_check_interval, Timeout(current_step))
  /\ pc' = "wfo_loop"
  /\ UNCHANGED <<exitVars, progVars, stop_spinner, retryVars, cert, elapsed,
                 lockVars, waitVars, menuVars, failedStep, opStep, fixVars,
                 lockHist, spinVars, runVars, port_probe, svcHealthy,
                 imageVars>>

\* main not looking at the wait's return value
WaitFailed_Ignored(res) == FALSE

\* main's test of the wait's return value: `if not wait_for_operation(...)`
WaitFailed(res) == res = "false"

\* main: if not wait_for_operation(...): print_error(...); sys.exit(1)
MainAfterWait ==
  /\ pc = "wfo_ret"
  /\ IF WaitFailed(wfoResult)
     THEN /\ SysExit("main_wait")
          /\ UNCHANGED <<clk, waitVars>>
     ELSE /\ pc' = MainPc(current_step + 1)
          /\ clk' = 0
          /\ wfoResult' = "none"
          /\ lastCheck' = "none"
          /\ menus' = 0
          /\ otherChoice' = FALSE
          /\ polledSinceMenu' = FALSE
          /\ UNCHANGED exitVars
  /\ UNCHANGED <<progVars, stop_spinner, retryVars, cert, elapsed, lockVars,
                 menuVars, failedStep, opStep, fixVars, lockHist, spinVars,
                 runVars, port_probe, svcHealthy, imageVars>>

(* ------------------- TroubleshootingMenu.show_menu -------------------- *)

\* str.lower() on the answers the operator can give
Lower(a) == IF a = "Y" THEN "y" ELSE a

\* the confirmation compared without .lower()
Confirmed_CaseSensitive(a) == a = "y"

\* input("Are you sure you want to cancel? (y/N): ").lower() == 'y'
Confirmed(a) == Lower(a) = "y"

\* show_menu returns True through every nested call
MenuReturnTrue ==
  /\ menuResult' = "true"
  /\ menuDepth' = 0
  /\ pc' = "wfo_resume"

\* the nested call's answer handed to the caller of show_menu at once
MenuRecurse_Returns ==
  /\ menuDepth' = 0
  /\ pc' = "wfo_resume"
  /\ UNCHANGED menuResult

\* return self.show_menu(context, logs_cmd): one more nested call
MenuRecurse ==
  /\ menuDepth' = menuDepth + 1
  /\ pc' = "menu_prompt"
  /\ UNCHANGED menuResult

\* choice "1"
MenuContinue ==
  /\ pc = "menu_prompt"
  /\ choice' = "1"
  /\ confirm' = "none"
  /\ \E d \in Delays : clk' = Adv(clk, d, Timeout(current_step))
  /\ MenuReturnTrue
  /\ UNCHANGED <<exitVars, progVars, stop_spinner, retryVars, cert, elapsed,
                 lockVars, waitVars, menuOps, failedStep, opStep, fixVars,
                 lockHist, spinVars, runVars, port_probe, svcHealthy,
                 imageVars>>

\* choice "2": _show_diagnostics runs its commands and waits for Enter
MenuDiagnostics ==
  /\ pc = "menu_prompt"
  /\ menuDepth < MaxMenuDepth
  /\ choice' = "2"
  /\ confirm' = "none"
  /\ otherChoice' = TRUE
  /\ menuOps' = menuOps + 1
  /\ cmds' = cmds \cup DiagnosticsCommands
  /\ \E d \in Delays : clk' = Adv(clk, d, Timeout(current_step))
  /\ MenuRecurse
  /\ UNCHANGED <<exitVars, progVars, stop_spinner, retryVars, cert, elapsed,
                 lockVars, wfoResult, lastCheck, menus, polledSinceMenu,
                 failedStep, opStep, context, ran, fixResult, lockHist,
                 spinVars, runVars, port_probe, svcHealthy, imageVars>>

\* a dispatch that looks for "docker" before "package manager"
attempt_fix_DockerFirst(label) ==
  IF Contains(LowerStr(label), kw_docker) THEN "docker"
  ELSE IF Contains(LowerStr(label), kw_package_manager) THEN "package_manager"
  ELSE IF Contains(LowerStr(label), kw_certbot) THEN "certbot"
  ELSE IF Contains(LowerStr(label), kw_conduwuit) THEN "conduwuit"
  ELSE "general"

\* _attempt_fix: the if / elif chain over context.lower(); "general" is the
\* code after the chain
attempt_fix(label) ==
  IF Contains(LowerStr(label), kw_package_manager) THEN "package_manager"
  ELSE IF Contains(LowerStr(label), kw_docker) THEN "docker"
  ELSE IF Contains(LowerStr(label), kw_certbot) THEN "certbot"
  ELSE IF Contains(LowerStr(label), kw_conduwuit) THEN "conduwuit"
  ELSE "general"

\* where the routine named r starts
FixPc(r) ==
  CASE r = "package_manager" -> "fix_package_manager"
    [] r = "docker" -> "fix_docker"
    [] r = "certbot" -> "fix_certbot"
    [] r = "conduwuit" -> "fix_conduwuit"
    [] OTHER -> "fix_general"

\* choice "3": self._attempt_fix(context) is called and dispatches
MenuFix ==
  /\ pc = "menu_prompt"
  /\ choice' = "3"
  /\ confirm' = "none"
  /\ otherChoice' = TRUE
  /\ menuOps' = menuOps + 1
  /\ ran' = <<>>
  /\ fixResult' = "none"
  /\ \E d \in Delays : clk' = Adv(clk, d, Timeout(current_step))
  /\ pc' = FixPc(attempt_fix(context))
  /\ UNCHANGED <<exitVars, progVars, stop_spinner, retryVars, cert, elapsed,
                 lockVars, wfoResult, lastCheck, menus, polledSinceMenu,
                 menuDepth, menuResult, failedStep, opStep, context, cmds,
                 lockHist, spinVars, runVars, port_probe, svcHealthy,
                 imageVars>>

\* a fix routine returns: its name, the commands it ran, its return value
FixReturns(name, commands, result) ==
  /\ ran' = Append(ran, name)
  /\ cmds' = cmds \cup commands
  /\ fixResult' = IF result THEN "true" ELSE "false"
  /\ pc' = "fix_ret"

\* _fix_package_manager: pkill each process, check_and_fix_locks(),
\* dpkg --configure -a; returns True whatever the commands did
FixPackageManager ==
  /\ pc = "fix_package_manager"
  /\ FixReturns("package_manager", PackageManagerFixCommands, TRUE)
  /\ \E d \in Delays : clk' = Adv(clk, d, Timeout(current_step))
  /\ UNCHANGED <<exitVars, progVars, stop_spinner, retryVars, cert, elapsed,
                 lockVars, waitVars, menuVars, failedStep, opStep, context,
                 lockHist, spinVars, runVars, port_probe, svcHealthy,
                 imageVars>>

\* _fix_docker: restart the daemon, sleep 2; False when it is not active,
\* otherwise prune, recreate the containers and return True
FixDocker ==
  /\ pc = "fix_docker"
  /\ \E active \in BOOLEAN :
       FixReturns("docker",
                  DockerRestartCommands \cup
                    (IF active THEN DockerRecreateCommands ELSE {}),
                  active)
  /\ \E d \in Delays :
       clk' = Adv(clk, d + docker_fix_sleep, Timeout(current_step))
  /\ UNCHANGED <<exitVars, progVars, stop_spinner, retryVars, cert, elapsed,
                 lockVars, waitVars, menuVars, failedStep, opStep, context,
                 lockHist, spinVars, runVars, port_probe, svcHealthy,
                 imageVars>>

\* _fix_certbot: reinstall certbot; the result is that of `which certbot`
FixCertbot ==
  /\ pc = "fix_certbot"
  /\ \E r \in {0, 1} : FixReturns("certbot", CertbotFixCommands, r = 0)
  /\ \E d \in Delays :
       clk' = Adv(clk, d + certbot_fix_sleep, Timeout(current_step))
  /\ UNCHANGED <<exitVars, progVars, stop_spinner, retryVars, cert, elapsed,
                 lockVars, waitVars, menuVars, failedStep, opStep, context,
                 lockHist, spinVars, runVars, port_probe, svcHealthy,
                 imageVars>>

\* _fix_conduwuit: docker-compose ps; "Exit" or "Restarting" in its output
\* leads to the repairs, otherwise to the curl check
FixConduwuit ==
  /\ pc = "fix_conduwuit"
  /\ ran' = Append(ran, "conduwuit")
  /\ cmds' = cmds \cup ConduwuitStatusCommands
  /\ \E bad \in BOOLEAN, d \in Delays :
       /\ clk' = Adv(clk, d, Timeout(current_step))
       /\ pc' = IF bad THEN "fix_conduwuit_recreate" ELSE "fix_conduwuit_curl"
  /\ UNCHANGED <<exitVars, progVars, stop_spinner, retryVars, cert, elapsed,
                 lockVars, waitVars, menuVars, failedStep, opStep, context,
                 fixResult, lockHist, spinVars, runVars, port_probe,
                 svcHealthy, imageVars>>

\* _fix_conduwuit, containers not running: prune, the repair the logs call
\* for, recreate, sleep 10, docker-compose ps again; False when still bad
FixConduwuitRecreate ==
  /\ pc = "fix_conduwuit_recreate"
  /\ \E pattern \in DOMAIN ConduwuitLogFixCommands, bad \in BOOLEAN,
        d \in Delays :
       /\ cmds' = cmds \cup ConduwuitRecreateCommands
                       \cup ConduwuitLogFixCommands[pattern]
       /\ clk' = Adv(clk, d + conduwuit_fix_sleep, Timeout(current_step))
       /\ IF bad THEN /\ fixResult' = "false"
                      /\ pc' = "fix_ret"
                 ELSE /\ pc' = "fix_conduwuit_curl"
                      /\ UNCHANGED fixResult
  /\ UNCHANGED <<exitVars, progVars, stop_spinner, retryVars, cert, elapsed,
                 lockVars, waitVars, menuVars, failedStep, opStep, context,
                 ran, lockHist, spinVars, runVars, port_probe, svcHealthy,
                 imageVars>>

\* _fix_conduwuit: return returncode == 0 and stdout.strip() == "200"
FixConduwuitCurl ==
  /\ pc = "fix_conduwuit_curl"
  /\ cmds' = cmds \cup ConduwuitCurlCommands
  /\ \E r \in {0, 1}, is200 \in BOOLEAN, d \in Delays :
       /\ clk' = Adv(clk, d, Timeout(current_step))
       /\ fixResult' = IF r = 0 /\ is200 THEN "true" ELSE "false"
  /\ pc' = "fix_ret"
  /\ UNCHANGED <<exitVars, progVars, stop_spinner, retryVars, cert, elapsed,
                 lockVars, waitVars, menuVars, failedStep, opStep, context,
                 ran, lockHist, spinVars, runVars, port_probe, svcHealthy,
                 imageVars>>

\* the general fixes after the chain: permissions, prune, recreate, sleep
\* 10; True when docker-compose ps shows neither "Exit" nor "Restarting"
FixGeneral ==
  /\ pc = "fix_general"
  /\ \E bad \in BOOLEAN : FixReturns("general", GeneralFixCommands, ~bad)
  /\ \E d \in Delays :
       clk' = Adv(clk, d + general_fix_sleep, Timeout(current_step))
  /\ UNCHANGED <<exitVars, progVars, stop_spinner, retryVars, cert, elapsed,
                 lockVars, waitVars, menuVars, failedStep, opStep, context,
                 lockHist, spinVars, runVars, port_probe, svcHealthy,
                 imageVars>>

\* the menu acting on a failed fix as on a successful one
FixSucceeded_Always(res) == TRUE

\* if self._attempt_fix(context): return True
FixSucceeded(res) == res = "true"

\* show_menu after _attempt_fix returned: True ends the menu, otherwise
\* "Automatic fix was not successful" and return self.show_menu(...)
MenuAfterFix ==
  /\ pc = "fix_ret"
  /\ IF FixSucceeded(fixResult)
     THEN MenuReturnTrue
     ELSE /\ menuDepth < MaxMenuDepth
          /\ MenuRecurse
  /\ ran' = <<>>
  /\ fixResult' = "none"
  /\ UNCHANGED <<exitVars, progVars, stop_spinner, retryVars, cert, clk,
                 elapsed, lockVars, waitVars, menuOps, choice, confirm,
                 failedStep, opStep, context, cmds, lockHist, spinVars,
                 runVars, port_probe, svcHealthy, imageVars>>

\* choice "4": _show_manual_intervention only prints and waits for Enter
MenuManual ==
  /\ pc = "menu_prompt"
  /\ menuDepth < MaxMenuDepth
  /\ choice' = "4"
  /\ confirm' = "none"
  /\ otherChoice' = TRUE
  /\ cmds' = cmds \cup ManualInterventionCommands
  /\ \E d \in Delays : clk' = Adv(clk, d, Timeout(current_step))
  /\ MenuRecurse
  /\ UNCHANGED <<exitVars, progVars, stop_spinner, retryVars, cert, elapsed,
                 lockVars, wfoResult, lastCheck, menus, polledSinceMenu,
                 menuOps, failedStep, opStep, context, ran, fixResult,
                 lockHist, spinVars, runVars, port_probe, svcHealthy,
                 imageVars>>

\* choice "5": the confirmation is asked
MenuCancel ==
  /\ pc = "menu_prompt"
  /\ choice' = "5"
  /\ confirm' = "none"
  /\ otherChoice' = TRUE
  /\ \E d \in Delays : clk' = Adv(clk, d, Timeout(current_step))
  /\ pc' = "menu_confirm"
  /\ UNCHANGED <<exitVars, progVars, stop_spinner, retryVars, cert, elapsed,
                 lockVars, wfoResult, lastCheck, menus, polledSinceMenu,
                 menuDepth, menuOps, menuResult, failedStep, opStep, fixVars,
                 lockHist, spinVars, runVars, port_probe, svcHealthy,
                 imageVars>>

\* the answer to the confirmation: 'y' exits, anything else loops
MenuConfirm ==
  /\ pc = "menu_confirm"
  /\ \E a \in ConfirmInputs, d \in Delays :
       /\ confirm' = a
       /\ clk' = Adv(clk, d, Timeout(current_step))
       /\ IF Confirmed(a)
          THEN Fatal("menu_cancel")
          ELSE /\ pc' = "menu_prompt"
               /\ UNCHANGED <<exitVars, failedStep>>
  /\ UNCHANGED <<progVars, stop_spinner, retryVars, cert, elapsed, lockVars,
                 waitVars, menuDepth, menuOps, menuResult, choice, opStep,
                 fixVars, lockHist, spinVars, runVars, port_probe, svcHealthy,
                 imageVars>>

\* any other input: "Invalid choice", the loop asks again
MenuInvalid ==
  /\ pc = "menu_prompt"
  /\ choice' = "x"
  /\ confirm' = "none"
  /\ otherChoice' = TRUE
  /\ \E d \in Delays : clk' = Adv(clk, d, Timeout(current_step))
  /\ UNCHANGED <<pc, exitVars, progVars, stop_spinner, retryVars, cert,
                 elapsed, lockVars, wfoResult, lastCheck, menus,
                 polledSinceMenu, menuDepth, menuOps, menuResult, failedStep,
                 opStep, fixVars, lockHist, spinVars, runVars, port_probe,
                 svcHealthy, imageVars>>

(* --------------------------- step 10: the end ------------------------- *)

\* the summary and the last question; main returns, exit status 0
FinalPrompt ==
  /\ pc = "final_prompt"
  /\ pc' = "done"
  /\ outcome' = "success"
  /\ UNCHANGED <<exitSite, progVars, stop_spinner, retryVars, cert, clk,
                 elapsed, lockVars, waitVars, menuVars, failedStep, opStep,
                 fixVars, lockHist, spinVars, runVars, port_probe, svcHealthy,
                 imageVars>>

(* ------------------------------ the run ------------------------------- *)

Next ==
  \/ MainUpdateStep
  \/ CheckRoot \/ CheckSystem \/ CheckPorts
  \/ AptUpdate \/ AptInstall \/ CertbotAttempt \/ CertbotVerify
  \/ LockStart \/ LockLoopEnd \/ LockPoll \/ LockAutoFix \/ LockRecheck
  \/ LockPrompt \/ LockSleep \/ LockFinalCheck \/ LockFinalCheck2
  \/ DockerDownload \/ DockerAttempt \/ DockerServiceLoop
  \/ DockerServiceStart
  \/ InstallDockerCompose
  \/ GetUserInput
  \/ SetupFiles \/ SslPortCheck \/ SslAttempt \/ SslVerify \/ CopyCerts
  \/ PullConduwuit \/ PullCoturn \/ ComposeUp
  \/ SvcLoopTest \/ SvcPoll \/ SvcPrompt \/ SvcSleep
  \/ WfoStart \/ WfoLoopTest \/ WfoCheck \/ WfoAfterMenu \/ WfoSleep
  \/ MainAfterWait
  \/ MenuContinue \/ MenuDiagnostics \/ MenuFix \/ MenuManual \/ MenuCancel
  \/ MenuConfirm \/ MenuInvalid
  \/ FixGeneral \/ MenuAfterFix
  \/ FinalPrompt

Spec == Init /\ [][Next]_vars

\* The run when every external call returns and the operator answers every
\* prompt: a step that can be taken is taken.
SpecFair == Init /\ [][Next]_vars /\ WF_vars(Next)

\* The program with its spinner threads.  The threads read the stop flag and
\* change nothing but their own state, so Spec, whose steps are those of the
\* main thread, has the same behaviours over the main thread's variables.
NextThreads == Next \/ SpinExit \/ SpinStaleExit

SpecThreads == Init /\ [][NextThreads]_vars

(* -------------------- show_menu on its own, any label ----------------- *)

\* troubleshoot.show_menu(context, logs_cmd) has just been called
InitMenu ==
  /\ pc = "menu_prompt"
  /\ outcome = "running"
  /\ exitSite = "none"
  /\ current_step = 0
  /\ reported = <<>>
  /\ stop_spinner = TRUE
  /\ i = 0
  /\ rc = -1
  /\ retry = "none"
  /\ calls = 0
  /\ fails = 0
  /\ cert = 0
  /\ clk = 0
  /\ elapsed = 0
  /\ locks_found = {}
  /\ procs_found = {}
  /\ wfoResult = "none"
  /\ lastCheck = "none"
  /\ menus = 1
  /\ otherChoice = FALSE
  /\ polledSinceMenu = FALSE
  /\ menuDepth = 1
  /\ menuOps = 0
  /\ menuResult = "none"
  /\ choice = "none"
  /\ confirm = "none"
  /\ failedStep = 0
  /\ opStep = 0
  /\ context \in MenuLabels
  /\ ran = <<>>
  /\ fixResult = "none"
  /\ cmds = {}
  /\ autoFixes = 0
  /\ prompts = 0
  /\ same = 0
  /\ head = <<>>
  /\ forced = {}
  /\ final1 = <<>>
  /\ final2 = <<>>
  /\ spinner = "none"
  /\ stale = FALSE
  /\ command = [launch |-> "none"]
  /\ returned = [kind |-> "none"]
  /\ port_probe = {}
  /\ svcHealthy = "none"
  /\ compose = NoFile
  /\ pulls = <<>>

NextMenu ==
  \/ MenuContinue \/ MenuDiagnostics \/ MenuFix \/ MenuManual \/ MenuCancel
  \/ MenuConfirm \/ MenuInvalid
  \/ FixPackageManager \/ FixDocker \/ FixCertbot
  \/ FixConduwuit \/ FixConduwuitRecreate \/ FixConduwuitCurl
  \/ FixGeneral \/ MenuAfterFix

SpecMenu == InitMenu /\ [][NextMenu]_vars

(* ---------------------------- run_command ----------------------------- *)

\* the exceptions that subprocess.Popen and bytes.decode raise, all of them
\* subclasses of Exception
Exceptions == {"FileNotFoundError", "PermissionError", "UnicodeDecodeError"}

\* what subprocess.Popen does with the command: the process is started, or
\* Popen raises (no such binary, binary not executable)
Launches == {"started", "FileNotFoundError", "PermissionError"}

\* what the process writes to a pipe: nothing, b"ok", or a byte that is no
\* UTF-8
Outputs == {<<>>, <<111, 107>>, <<128>>}

Commands ==
  [launch : Launches, returncode : 0..MaxExitCode, stdout : Outputs,
   stderr : Outputs]

\* the character of an ASCII byte
Chr(b) == CASE b = 111 -> "o" [] b = 107 -> "k" [] OTHER -> "?"

\* bytes.decode(): the text, or UnicodeDecodeError for a byte above 127
decode(bytes) ==
  IF \E k \in DOMAIN bytes : bytes[k] > 127
  THEN [raise |-> "UnicodeDecodeError", text |-> <<>>]
  ELSE [raise |-> "none", text |-> [k \in DOMAIN bytes |-> Chr(bytes[k])]]

\* str(e): the message of an exception, never empty
str(e) == <<e>>

Return(code, out, err) ==
  [kind |-> "return", returncode |-> code, stdout |-> out, stderr |-> err]

Raise(e) == [kind |-> "raise", exc |-> e]

\* the try block: Popen, communicate, the two decode calls
run_command_try(c) ==
  IF c.launch # "started" THEN Raise(c.launch)
  ELSE IF decode(c.stdout).raise # "none" THEN Raise(decode(c.stdout).raise)
  ELSE IF decode(c.stderr).raise # "none" THEN Raise(decode(c.stderr).raise)
  ELSE Return(c.returncode, decode(c.stdout).text, decode(c.stderr).text)

\* a run_command without its except clause
run_command_Propagates(c) == run_command_try(c)

\* run_command: `except Exception as e: return 1, "", str(e)`
run_command(c) ==
  LET r == run_command_try(c)
  IN  IF r.kind = "raise" /\ r.exc \in Exceptions
      THEN Return(1, <<>>, str(r.exc))
      ELSE r

\* one call of run_command
RunCommand ==
  /\ pc = "run_command"
  /\ returned' = run_command(command)
  /\ pc' = "returned"
  /\ UNCHANGED <<exitVars, progVars, stop_spinner, retryVars, cert, clk,
                 elapsed, lockVars, waitVars, menuVars, failedStep, opStep,
                 fixVars, lockHist, spinVars, command, port_probe, svcHealthy,
                 imageVars>>

\* run_command alone, called with any command
InitRun ==
  /\ pc = "run_command"
  /\ outcome = "running"
  /\ exitSite = "none"
  /\ current_step = 0
  /\ reported = <<>>
  /\ stop_spinner = FALSE
  /\ i = 0
  /\ rc = -1
  /\ retry = "none"
  /\ calls = 0
  /\ fails = 0
  /\ cert = 0
  /\ clk = 0
  /\ elapsed = 0
  /\ locks_found = {}
  /\ procs_found = {}
  /\ wfoResult = "none"
  /\ lastCheck = "none"
  /\ menus = 0
  /\ otherChoice = FALSE
  /\ polledSinceMenu = FALSE
  /\ menuDepth = 0
  /\ menuOps = 0
  /\ menuResult = "none"
  /\ choice = "none"
  /\ confirm = "none"
  /\ failedStep = 0
  /\ opStep = 0
  /\ context = <<>>
  /\ ran = <<>>
  /\ fixResult = "none"
  /\ cmds = {}
  /\ autoFixes = 0
  /\ prompts = 0
  /\ same = 0
  /\ head = <<>>
  /\ forced = {}
  /\ final1 = <<>>
  /\ final2 = <<>>
  /\ spinner = "none"
  /\ stale = FALSE
  /\ command \in Commands
  /\ returned = [kind |-> "none"]
  /\ port_probe = {}
  /\ svcHealthy = "none"
  /\ compose = NoFile
  /\ pulls = <<>>

NextRun == RunCommand

SpecRun == InitRun /\ [][NextRun]_vars

(* ======================= properties of the run ======================= *)

RetrySites == {"certbot_retry", "docker_retry", "ssl_retry"}
RetryPcs == {"certbot_try", "docker_try", "ssl_try"}
MenuPcs == {"menu_prompt", "menu_confirm"}

MaxRetries(name) ==
  CASE name = "certbot" -> max_retries_certbot
    [] name = "docker" -> max_retries_docker
    [] OTHER -> max_retries_ssl

RetrySite(name) ==
  CASE name = "certbot" -> "certbot_retry"
    [] name = "docker" -> "docker_retry"
    [] OTHER -> "ssl_retry"

\* C1: in each retry loop (certbot install, Docker install, certificate
\* issuance) with max_retries = n, the operation is invoked at most n times;
\* the loop goes on after each failure and never aborts the run while fewer
\* than n invocations have failed; when the first n-1 invocations failed and
\* the n-th succeeded, the loop has ended in success after exactly n
\* invocations and has not aborted the run.
C1_RetrySucceedsOnNth ==
  retry # "none" =>
    /\ calls <= MaxRetries(retry)
    /\ (fails < MaxRetries(retry) => exitSite \notin RetrySites)
    /\ (pc \in RetryPcs => calls = fails /\ i = calls)
    /\ (calls = MaxRetries(retry) /\ fails = MaxRetries(retry) - 1
          => rc = 0 /\ pc \notin RetryPcs /\ exitSite \notin RetrySites)

\* C1 witness: a retry loop that ended in success on its last attempt
C1_Witness ==
  /\ retry = "ssl"
  /\ calls = max_retries_ssl
  /\ fails = max_retries_ssl - 1
  /\ rc = 0
  /\ pc = "ssl_verify"

C3_FirstFailureAborts ==
  failedStep # 0 =>
    /\ opStep <= failedStep
    /\ current_step = failedStep
    /\ reported[Len(reported)] = failedStep
    /\ outcome # "success"
    /\ pc \in {"exited", "wfo_ret"}
    /\ (pc = "exited" <=> outcome = "fail")
    /\ (pc = "wfo_ret" => wfoResult = "false")

\* C3 witness: the wait of step 8 returned false and main exited
C3_Witness ==
  /\ failedStep = 8
  /\ pc = "exited"
  /\ exitSite = "main_wait"

\* C4: the progress ordinals are reported in increasing order without a gap
\* or a repetition (0 for "Starting installation", then 1, 2, ...); a run
\* ends in success only with every ordinal 1..total_steps reported, and a run
\* in which no operation failed is not aborted.
C4_OrdinalsInOrder ==
  /\ \A k \in 1..Len(reported) : reported[k] = k - 1
  /\ Len(reported) <= total_steps + 1
  /\ (outcome = "success" =>
        /\ Len(reported) = total_steps + 1
        /\ current_step = total_steps)
  /\ (pc = "done" => outcome = "success")
  /\ (failedStep = 0 => outcome # "fail")

\* C4 witness: the run ended in success
C4_Witness ==
  /\ pc = "done"
  /\ outcome = "success"
  /\ failedStep = 0
  /\ reported = <<0, 1, 2, 3, 4, 5, 6, 7, 8, 9, 10>>

\* C5: when the predicate of wait_for_operation has evaluated to true the
\* wait has returned true at that poll: it is in neither its loop nor the
\* menu any more, so neither another evaluation nor the menu follows.
C5_TrueEndsWait ==
  lastCheck = "true" =>
    /\ pc = "wfo_ret"
    /\ wfoResult = "true"
    /\ menuDepth = 0
    /\ stop_spinner = TRUE

\* C5 witness: the predicate became true after the midpoint, once the menu
\* had been shown
C5_Witness ==
  /\ lastCheck = "true"
  /\ wfoResult = "true"
  /\ menus > 0

\* C6 as stated: a wait whose predicate was never true and whose operator
\* only ever answered "continue" returns false having invoked the menu
\* exactly once.
C6_MenuExactlyOnce ==
  (pc = "wfo_ret" /\ wfoResult = "false" /\ ~otherChoice) => menus = 1

\* C7 as stated: after the operator confirmed the cancel in the menu invoked
\* from wait_for_operation, wait_for_operation has returned false to main.
C7_CancelReturnsFalse ==
  (choice = "5" /\ confirm \in {"y", "Y"}) =>
     (wfoResult = "false" /\ exitSite # "menu_cancel")

\* C8 as stated: wait_for_operation does not return false without having
\* evaluated the predicate at least once after the menu returned.
C8_PolledAfterMenu ==
  (pc = "wfo_ret" /\ wfoResult = "false" /\ menus > 0) => polledSinceMenu

C8_Resumes ==
  /\ (pc \in {"wfo_loop", "wfo_check", "wfo_sleep"} => stop_spinner = FALSE)
  /\ (pc = "wfo_check" => clk < Timeout(current_step))
  /\ (wfoResult = "false" => clk >= Timeout(current_step))

\* C8 amended: after the menu returns (continue or a successful fix) the
\* busy indicator is restarted and the wait sleeps one poll interval; the
\* predicate is evaluated again exactly when the time elapsed since the start
\* of the wait (menu time included) is still below the timeout; otherwise
\* the wait returns false, possibly without another evaluation.
C8_ResumesWhileTimeRemains ==
  /\ []C8_Resumes
  /\ [][(pc = "wfo_resume" => pc' = "wfo_sleep" /\ stop_spinner' = FALSE)
        /\ (pc = "wfo_sleep" => pc' = "wfo_loop")
        /\ (pc = "wfo_loop" /\ clk < Timeout(current_step)
              => pc' = "wfo_check")
        /\ (pc = "wfo_loop" /\ clk >= Timeout(current_step)
              => pc' = "wfo_ret" /\ wfoResult' = "false")]_vars

\* C8 witness: polling resumed after the menu: the predicate is about to be
\* evaluated again
C8_Witness ==
  /\ pc = "wfo_check"
  /\ menus > 0
  /\ ~polledSinceMenu

\* C9: the troubleshooting menu of wait_for_operation and the prompt of the
\* service wait are shown only when the predicate returned false and the
\* elapsed time is more than half of the timeout.
C9_PromptOnlyWhenStalled ==
  /\ (pc \in MenuPcs =>
        /\ lastCheck = "false"
        /\ 2 * clk > Timeout(current_step))
  /\ (pc = "svc_prompt" =>
        /\ lastCheck = "false"
        /\ 2 * elapsed > svc_max_wait_time)

\* C9 witness: the menu is shown by the wait of step 9
C9_Witness ==
  /\ pc = "menu_prompt"
  /\ current_step = 9
  /\ menuDepth = 1

\* C10: at the cancel confirmation, an answer other than y/Y puts the menu
\* back at its prompt with nothing else changed (same nesting, no command
\* run, the run goes on); the answer y/Y ends the run with sys.exit(1).
C10_CancelNeedsConfirmation ==
  [][pc = "menu_confirm" =>
       IF confirm' \in {"y", "Y"}
       THEN pc' = "exited" /\ outcome' = "fail"
       ELSE /\ pc' = "menu_prompt"
            /\ UNCHANGED <<outcome, exitSite, current_step, reported,
                           stop_spinner, i, rc, retry, calls, fails, cert,
                           elapsed, locks_found, procs_found, wfoResult,
                           lastCheck, menus, polledSinceMenu, menuDepth,
                           menuOps, menuResult, choice, failedStep,
                           opStep>>]_vars

\* C10 witness: the cancel was declined and the menu is at its prompt again
C10_Witness ==
  /\ pc = "menu_prompt"
  /\ choice = "5"
  /\ confirm \in {"n", "", "yes"}

CancelSites == {"menu_cancel", "lock_cancel", "svc_cancel"}

\* C11 as stated: a cancellation chosen by the operator (the menu's cancel,
\* the lock wait's "Exit and try again later", the service wait's "Cancel
\* installation") ends the run only after a second, confirming answer; one
\* menu choice alone never ends the run.
C11_CancelAfterSecondConfirmation ==
  exitSite \in CancelSites => confirm \in {"y", "Y"}

\* every position inside show_menu
MenuSessionPcs ==
  {"menu_prompt", "menu_confirm", "fix_package_manager", "fix_docker",
   "fix_certbot", "fix_conduwuit", "fix_conduwuit_recreate",
   "fix_conduwuit_curl", "fix_general", "fix_ret"}

\* C12: show_menu returns to its caller (with True) only on the choice
\* "continue" or after _attempt_fix returned True; after diagnostics, manual
\* intervention, a failed fix, a declined cancel or an invalid choice the
\* menu is at its prompt again; the only other way out of the menu is the
\* confirmed cancel, which ends the run with sys.exit(1).
C12_MenuExits ==
  [][/\ (pc \in MenuSessionPcs /\ pc' = "wfo_resume") =>
          /\ menuResult' = "true"
          /\ \/ (pc = "menu_prompt" /\ choice' = "1")
             \/ (pc = "fix_ret" /\ choice' = "3" /\ fixResult = "true")
     /\ (pc = "menu_prompt" /\ choice' \in {"2", "4", "x"}) =>
          (pc' = "menu_prompt" /\ outcome' = "running")
     /\ (pc = "fix_ret" /\ fixResult = "false") =>
          (pc' = "menu_prompt" /\ outcome' = "running")
     /\ (pc = "menu_confirm" /\ confirm' \notin {"y", "Y"}) =>
          (pc' = "menu_prompt" /\ outcome' = "running")
     /\ (pc \in MenuSessionPcs /\ pc' \notin MenuSessionPcs
           /\ pc' # "wfo_resume") =>
          /\ pc = "menu_confirm"
          /\ confirm' \in {"y", "Y"}
          /\ pc' = "exited"
          /\ outcome' = "fail"
          /\ exitSite' = "menu_cancel"]_vars

\* C12 witness: the menu returned on "continue" after the diagnostics had
\* been shown
C12_Witness ==
  /\ pc = "wfo_resume"
  /\ menuResult = "true"
  /\ choice = "1"
  /\ DiagnosticsCommands \subseteq cmds

\* C13: when the dispatched fix routine returned True the menu returns True
\* to its caller at once, without another prompt; when it returned False the
\* menu is at its prompt again (one call deeper) and nothing is returned to
\* the caller.
C13_FixDecidesExit ==
  [][pc = "fix_ret" =>
       IF fixResult = "true"
       THEN /\ pc' = "wfo_resume"
            /\ menuResult' = "true"
            /\ menuDepth' = 0
            /\ UNCHANGED <<choice, outcome>>
       ELSE /\ fixResult = "false"
            /\ pc' = "menu_prompt"
            /\ menuDepth' = menuDepth + 1
            /\ UNCHANGED <<menuResult, wfoResult, context, outcome>>]_vars

\* C13 witness: a fix of the Docker category failed and the menu asks again
C13_Witness ==
  /\ pc = "menu_prompt"
  /\ choice = "3"
  /\ menuDepth = 2
  /\ menuResult = "none"
  /\ "systemctl is-active docker" \in cmds

\* the categories in the order of their priority
Categories ==
  <<[kw |-> kw_package_manager, routine |-> "package_manager"],
    [kw |-> kw_docker, routine |-> "docker"],
    [kw |-> kw_certbot, routine |-> "certbot"],
    [kw |-> kw_conduwuit, routine |-> "conduwuit"]>>

Matching(label) ==
  {k \in 1..Len(Categories) : Contains(LowerStr(label), Categories[k].kw)}

\* the routine of the first matching category, the general fix when none
Selected(label) ==
  IF Matching(label) = {} THEN "general"
  ELSE Categories[CHOOSE k \in Matching(label) :
                    \A m \in Matching(label) : k <= m].routine

RoutineCommands(r) ==
  CASE r = "package_manager" -> PackageManagerFixCommands
    [] r = "docker" -> DockerRestartCommands \cup DockerRecreateCommands
    [] r = "certbot" -> CertbotFixCommands
    [] r = "conduwuit" ->
         ConduwuitStatusCommands \cup ConduwuitRecreateCommands
           \cup ConduwuitCurlCommands
           \cup UNION {ConduwuitLogFixCommands[f] :
                         f \in DOMAIN ConduwuitLogFixCommands}
    [] OTHER -> GeneralFixCommands

RoutinePcs(r) ==
  CASE r = "package_manager" -> {"fix_package_manager"}
    [] r = "docker" -> {"fix_docker"}
    [] r = "certbot" -> {"fix_certbot"}
    [] r = "conduwuit" ->
         {"fix_conduwuit", "fix_conduwuit_recreate", "fix_conduwuit_curl"}
    [] OTHER -> {"fix_general"}

\* C14: for every label, one attempt runs exactly one fix routine: that of
\* the first category, in the order package manager, docker, certbot,
\* conduwuit, that the lower-cased label contains, and the general fix when
\* it contains none; no command of another routine is run; the attempt
\* returns what that routine returned (the package-manager routine always
\* True).
C14_DispatchByPriority ==
  /\ Len(ran) <= 1
  /\ (pc \in MenuSessionPcs \ {"menu_prompt", "menu_confirm", "fix_ret"}) =>
        /\ pc \in RoutinePcs(Selected(context))
        /\ fixResult = "none"
  /\ pc = "fix_ret" =>
        /\ ran = <<Selected(context)>>
        /\ fixResult \in {"true", "false"}
        /\ (Selected(context) = "package_manager" => fixResult = "true")
  /\ cmds \subseteq (DiagnosticsCommands \cup RoutineCommands(Selected(context)))

\* C14 witness: a label naming certbot and docker had the Docker routine run
C14_Witness ==
  /\ pc = "fix_ret"
  /\ context = label_certbot_docker
  /\ ran = <<"docker">>
  /\ fixResult = "false"

\* C15: the choice "manual intervention" runs no external command and
\* changes nothing of the progress, the waits, the run's outcome or the
\* menu's label and results; afterwards the menu is at its prompt (in a
\* nested show_menu call; only the choice read, the time and the nesting
\* differ).
C15_ManualHasNoEffect ==
  [][(pc = "menu_prompt" /\ choice' = "4") =>
       /\ pc' = "menu_prompt"
       /\ UNCHANGED <<outcome, exitSite, current_step, reported,
                      stop_spinner, i, rc, retry, calls, fails, cert,
                      elapsed, locks_found, procs_found, wfoResult,
                      lastCheck, menus, polledSinceMenu, menuOps,
                      menuResult, failedStep, opStep, context, ran,
                      fixResult, cmds>>]_vars

\* C15 witness: the guidance was shown and the menu asks again, no command
\* having been run in this menu session
C15_Witness ==
  /\ pc = "menu_prompt"
  /\ choice = "4"
  /\ menuDepth = 2
  /\ cmds = {}
  /\ menuOps = 0

\* C16: when the first poll of the lock wait finds no lock file and no
\* process, the wait loop ends at that poll ("Package manager is now
\* available") at elapsed time 0: no automatic fix (kill, lock removal), no
\* forced command, no prompt; the loop makes no further poll, what follows
\* is install_docker's check after the loop.
C16_FirstPollFree ==
  /\ []((pc = "lock_final" /\ i = 0) =>
          /\ locks_found = {}
          /\ procs_found = {}
          /\ clk = 0
          /\ autoFixes = 0
          /\ prompts = 0
          /\ forced = {}
          /\ choice = "none"
          /\ outcome = "running")
  /\ [][/\ (pc = "lock_poll" /\ i = 0
              /\ ~Blocked(locks_found', procs_found')) =>
             (pc' = "lock_final" /\ i' = 0)
        /\ (pc = "lock_final" => pc' \in {"lock_final2", "exited"})
        /\ (pc = "lock_final2" => pc' \in {"docker_download", "exited"})]_vars

\* C16 witness: the first poll found nothing and the loop is left
C16_Witness ==
  /\ pc = "lock_final"
  /\ i = 0
  /\ head = <<{}, {}>>
  /\ same = 0

\* C17: the options are shown to the operator only after an automatic fix
\* was attempted in the same iteration, so exactly one automatic fix
\* precedes the first prompt and each later prompt has its own before it;
\* with blockers present from the first poll on, the first automatic fix is
\* attempted at the first poll later than auto_fix_threshold seconds.
C17_FixBeforePrompt ==
  /\ prompts <= autoFixes
  /\ (pc = "lock_prompt" => autoFixes = prompts + 1)
  /\ (pc \in {"lock_recheck", "lock_prompt"} => autoFixes >= 1)
  /\ ((pc = "lock_fix" /\ autoFixes = 0) =>
        /\ prompts = 0
        /\ clk = i * lock_check_interval
        /\ clk > auto_fix_threshold
        /\ clk - lock_check_interval <= auto_fix_threshold)
  /\ ((pc = "lock_sleep" /\ autoFixes = 0) => clk <= auto_fix_threshold)

\* C17 witness: the same blockers at every poll up to the first automatic
\* fix, which did not free the package manager: the first prompt
C17_Witness ==
  /\ pc = "lock_prompt"
  /\ prompts = 0
  /\ autoFixes = 1
  /\ same = i + 1
  /\ same >= 2

\* C18 as stated: an automatic fix is attempted only after at least two
\* polls in a row returned the same non-empty snapshot; polls whose
\* snapshots keep changing never lead to it.
C18_FixOnlyOnStagnation ==
  pc = "lock_fix" => same >= 2

\* C19: the forced commands (killall -9, rm -f of the locks, dpkg
\* --configure -a) are run only by the prompt's answer "2", in the iteration
\* in which it was given: not by the automatic fix, not on "1", not on any
\* other answer.
C19_ForcedOnlyOnChoice ==
  /\ [](forced # {} => (choice = "2" /\ pc = "lock_sleep" /\ autoFixes >= 1))
  /\ [][(forced' # forced /\ forced' # {}) =>
          (pc = "lock_prompt" /\ choice' = "2" /\ forced' = ForcedCommands)]_vars

\* C19 witness: the operator chose the forced fix
C19_Witness ==
  /\ forced = ForcedCommands
  /\ choice = "2"
  /\ pc = "lock_sleep"

\* C20: the automatic fix is followed by a new snapshot; when it shows no
\* blocker the loop is left without a prompt; otherwise the options are
\* shown: "2" runs the forced commands and waits on, "3" ends the run with
\* sys.exit(1), any other answer waits on.
C20_AfterAutoFix ==
  [][/\ (pc = "lock_fix" => pc' = "lock_recheck")
     /\ (pc = "lock_recheck" =>
           IF ~Blocked(locks_found', procs_found')
           THEN /\ pc' = "lock_final"
                /\ UNCHANGED <<prompts, choice, forced, outcome>>
           ELSE /\ pc' = "lock_prompt"
                /\ UNCHANGED <<prompts, outcome>>)
     /\ (pc = "lock_prompt" =>
           /\ prompts' = prompts + 1
           /\ CASE choice' = "2" ->
                     /\ forced' = ForcedCommands
                     /\ pc' = "lock_sleep"
                     /\ outcome' = "running"
                [] choice' = "3" ->
                     /\ pc' = "exited"
                     /\ outcome' = "fail"
                     /\ exitSite' = "lock_cancel"
                     /\ forced' = {}
                [] OTHER ->
                     /\ forced' = {}
                     /\ pc' = "lock_sleep"
                     /\ outcome' = "running")]_vars

\* C20 witness: blockers were left after the automatic fix and the operator
\* chose to exit
C20_Witness ==
  /\ pc = "exited"
  /\ exitSite = "lock_cancel"
  /\ autoFixes = 1
  /\ prompts = 1
  /\ Blocked(locks_found, procs_found)

\* C22 (violated by the code): the decision that the package manager is
\* free, taken by the check after the lock wait, rests on one snapshot:
\* when the download starts, one of the two snapshots of that check shows
\* neither a lock file nor a process.
C22_DecisionOnOneSnapshot ==
  (pc = "docker_download" /\ final2 # <<>>) =>
     \/ ~Blocked(final1[1], final1[2])
     \/ ~Blocked(final2[1], final2[2])

\* C21 (violated by the code): the Docker download is not started while
\* the latest snapshot of the package manager still shows a lock file or a
\* process.
C21_NoDownloadWhileBlocked ==
  (pc = "docker_download" /\ final2 # <<>>) =>
     ~Blocked(final2[1], final2[2])

\* C23 (violated by the code): while the Troubleshooting Menu entered from
\* wait_for_operation is displayed (its prompt, its confirmation, its fix
\* routines), no spinner thread is alive.
C23_NoSpinnerAtPrompt ==
  pc \in MenuSessionPcs => (spinner = "none" /\ ~stale)

\* C24: run_command never ends by raising: it returns (returncode, stdout,
\* stderr).  When the process was started and its output decoded, that is the
\* process's exit status, zero or not, with its decoded output; when the
\* command could not be started (or its output not decoded) it is the
\* failing result (1, "", message) with a message that is not empty.
C24_NeverRaises ==
  returned.kind # "none" =>
    /\ returned.kind = "return"
    /\ LET out == decode(command.stdout)
           err == decode(command.stderr)
       IN  IF command.launch = "started" /\ out.raise = "none"
              /\ err.raise = "none"
           THEN returned = Return(command.returncode, out.text, err.text)
           ELSE /\ returned.returncode = 1
                /\ returned.stdout = <<>>
                /\ returned.stderr # <<>>

\* C24 witness: a command whose binary does not exist was run
C24_Witness ==
  /\ returned.kind = "return"
  /\ command.launch = "FileNotFoundError"
  /\ returned.stderr = str("FileNotFoundError")

\* C25: "Installation complete" (ordinal total_steps) is reported only in a
\* run in which nothing has failed; the step after a health wait is entered
\* only from that wait having returned true, so the three waits of steps 7,
\* 8 and 9 have all returned true by then; a failure is final: once the
\* run has failed it stays exited with the failure outcome and reports no
\* further step, and a run is a success only with no failed step.
C25_CompleteOnlyAfterSuccess ==
  /\ [](current_step = total_steps =>
          /\ failedStep = 0
          /\ exitSite = "none"
          /\ outcome # "fail")
  /\ [](outcome = "success" => (failedStep = 0 /\ pc = "done"))
  /\ [][/\ ((pc' \in {"main_8", "main_9", "main_10"} /\ pc' # pc) =>
              /\ pc = "wfo_ret"
              /\ wfoResult = "true"
              /\ pc' = MainPc(current_step + 1))
        /\ ((pc = "wfo_ret" /\ wfoResult # "true") =>
              (pc' = "exited" /\ outcome' = "fail"))
        /\ (outcome = "fail" =>
              (outcome' = "fail" /\ pc' = "exited" /\ UNCHANGED progVars))]_vars

\* C25 witness: the three waits returned true and "Installation complete"
\* has just been reported
C25_Witness ==
  /\ pc = "final_prompt"
  /\ current_step = total_steps
  /\ outcome = "running"

PreconditionSites == {"check_root", "check_system", "check_ports"}

PackagePcs == {"apt_update", "apt_install", "certbot_try", "certbot_verify"}

RuntimePcs ==
  {"lock_loop", "lock_poll", "lock_fix", "lock_recheck", "lock_prompt",
   "lock_sleep", "lock_final", "lock_final2", "docker_download",
   "docker_try", "docker_service", "docker_active"}

CertificatePcs == {"ssl_port", "ssl_try", "ssl_verify"}

ServicePcs ==
  {"compose_up", "svc_loop", "svc_poll", "svc_prompt", "svc_sleep"}

\* C27: one operation runs at a time, that of the current step, and the
\* steps' operations are entered in order, each from the successful end of
\* the one before: the Docker installation from update_step(3), reached from
\* the verification of certbot that ends the package installation; the
\* certificates from the files of step 6; the copy of the certificates from
\* the verification of the second domain's certificate; docker-compose up
\* from the image pulls; step 7 from the service wait having found the
\* services healthy; the creation of the admin user (step 8) from the wait
\* of step 7 having returned true.
C27_StepsInDependencyOrder ==
  /\ [](/\ opStep <= current_step
        /\ (pc \in PackagePcs => current_step = 2)
        /\ (pc \in RuntimePcs => current_step = 3)
        /\ (pc \in CertificatePcs \cup ServicePcs => current_step = 6)
        /\ (pc \in CertificatePcs => cert \in {1, 2}))
  /\ [][/\ (opStep' # opStep =>
              (opStep' = current_step /\ opStep' > opStep))
        /\ ((pc' \in RuntimePcs /\ pc \notin RuntimePcs) =>
              (pc = "main_3" /\ opStep = 2 /\ outcome = "running"))
        /\ ((pc' = "main_3" /\ pc # pc') => pc = "certbot_verify")
        /\ ((pc' = "main_4" /\ pc # pc') => pc = "docker_active")
        /\ ((pc' \in CertificatePcs /\ pc \notin CertificatePcs) =>
              (pc = "setup_files" /\ opStep' = 6 /\ cert' = 1))
        /\ ((pc' = "copy_certs" /\ pc # pc') =>
              (pc = "ssl_verify" /\ cert = 2))
        /\ ((pc' \in ServicePcs /\ pc \notin ServicePcs) =>
              (pc = "pull_coturn" /\ pc' = "compose_up"))
        /\ ((pc' = "main_7" /\ pc # pc') => pc = "svc_poll")
        /\ ((pc' = "wfo_check" /\ current_step' = 8) =>
              (pc = "wfo_loop" /\ <<0, 1, 2, 3, 4, 5, 6, 7, 8>> = reported))]_vars

\* C27 witness: the admin user is being created, every earlier step done
C27_Witness ==
  /\ pc = "wfo_check"
  /\ current_step = 8
  /\ opStep = 7
  /\ outcome = "running"

\* C28: the current step of InstallationProgress is always one of
\* 0..total_steps (total_steps is set once, in the constructor) and no step
\* of the run lowers it: an update raises it by one, every other step leaves
\* it as it is.
C28_ProgressState ==
  /\ [](current_step \in 0..total_steps)
  /\ [][/\ current_step' >= current_step
        /\ (reported' # reported =>
              /\ current_step' = current_step + (IF reported = <<>> THEN 0 ELSE 1)
              /\ reported' = Append(reported, current_step'))
        /\ (reported' = reported => current_step' = current_step)]_vars

\* C28 witness: half-way through the run, the update of step 5 done
C28_Witness ==
  /\ pc = "user_input"
  /\ current_step = 5
  /\ Len(reported) = 6

\* C29 (violated by the code): a wait loop whose elapsed time has reached
\* its maximum wait starts no further poll: the lock wait takes no further
\* snapshot, the service wait and wait_for_operation leave their loops.
C29_NoPollAfterMaxWait ==
  [][/\ ((pc = "lock_poll" /\ clk >= lock_max_wait_time) =>
           (pc' = "lock_final" /\ UNCHANGED <<head, lockVars>>))
     /\ ((pc = "svc_loop" /\ clk >= svc_max_wait_time) => pc' = "exited")
     /\ ((pc = "wfo_loop" /\ clk >= Timeout(current_step)) =>
           pc' = "wfo_ret")]_vars

\* C30 (violated by the code): the nesting depth of show_menu rises only
\* when the menu is entered from a wait; inside a menu session no choice of
\* the operator makes it deeper.
C30_DepthStaysConstant ==
  [][menuDepth' > menuDepth => (menuDepth = 0 /\ pc = "wfo_check")]_vars

\* C31 (violated by the code): at most one spinner thread is alive: the
\* thread of the latest start_spinner() is never running together with a
\* thread of an earlier start.
C31_AtMostOneSpinner ==
  ~(spinner = "running" /\ stale)

\* C32 (violated by the code): no spinner thread started by a wait goes on
\* running into the next step: when the wait of step 8 or 9 starts its
\* spinner and clears the stop flag, every thread of the waits before it has
\* ended.
C32_NoSpinnerIntoNextStep ==
  [][(pc = "wfo_start" /\ current_step > 7) =>
       (spinner = "none" /\ ~stale /\ ~stale')]_vars

\* C33: setup_conduwuit returns to main (which then reports step 7) only
\* from a poll of its service wait at which check_services was true, and
\* every poll is made with less than 180 s elapsed; when the time is used up
\* with no such poll, or the operator chooses "4", the run exits with the
\* failure outcome.  Whatever `docker-compose up -d` returned, the wait is
\* entered.
C33_ServiceWaitHandsBackHealthy ==
  /\ [](pc = "main_7" => (svcHealthy = "true" /\ outcome = "running"))
  /\ [](pc = "svc_poll" => clk < svc_max_wait_time)
  /\ [][/\ ((pc' = "main_7" /\ pc # pc') =>
              (pc = "svc_poll" /\ svcHealthy' = "true"))
        /\ ((current_step' = 7 /\ current_step # 7) =>
              (pc = "main_7" /\ svcHealthy = "true"))
        /\ ((pc = "svc_loop" /\ clk >= svc_max_wait_time) =>
              (pc' = "exited" /\ outcome' = "fail"
                 /\ exitSite' = "svc_timeout"))
        /\ ((pc = "svc_prompt" /\ choice' = "4") =>
              (pc' = "exited" /\ outcome' = "fail"
                 /\ exitSite' = "svc_cancel"))
        /\ (pc = "compose_up" =>
              (pc' = "svc_loop" /\ outcome' = "running"))]_vars

\* C33 witness: `docker-compose up -d` failed, the services were found
\* healthy later and setup_conduwuit has returned
C33_Witness ==
  /\ pc = "main_7"
  /\ rc = 1
  /\ svcHealthy = "true"


\* the pulls made for one service, in the order they were made
PullsOf(service) == SelectSeq(pulls, LAMBDA p : p.service = service)

\* C34: for each service the candidates are pulled in list order and no
\* candidate is pulled after one was pulled successfully; the image whose
\* pull succeeded is the one docker-compose.yml names when the containers
\* are started; when every candidate of a service has failed the run has
\* exited with failure (so "docker-compose up" is not reached); the coturn
\* images are pulled only after a conduwuit image was pulled successfully.
C34_ImageFallback ==
  LET cd == PullsOf("conduwuit")
      ct == PullsOf("coturn")
      InOrder(ps, images) ==
        /\ Len(ps) <= Len(images)
        /\ \A k \in 1..Len(ps) : ps[k].image = images[k]
        /\ \A k \in 1..(Len(ps) - 1) : ~ps[k].ok
      Pulled(ps) == ps # <<>> /\ ps[Len(ps)].ok
      AllFailed(ps, images) ==
        Len(ps) = Len(images) /\ \A k \in 1..Len(ps) : ~ps[k].ok
  IN /\ InOrder(cd, conduwuit_images)
     /\ InOrder(ct, coturn_images)
     /\ pulls = cd \o ct
     /\ ct # <<>> => Pulled(cd)
     /\ pc = "pull_coturn" =>
          /\ Pulled(cd)
          /\ compose = [conduwuit |-> cd[Len(cd)].image,
                        coturn    |-> ComposeTemplate.coturn]
     /\ pc = "compose_up" =>
          /\ Pulled(cd)
          /\ Pulled(ct)
          /\ compose = [conduwuit |-> cd[Len(cd)].image,
                        coturn    |-> ct[Len(ct)].image]
     /\ AllFailed(cd, conduwuit_images) <=> exitSite = "pull_conduwuit"
     /\ AllFailed(ct, coturn_images) <=> exitSite = "pull_coturn"
     /\ exitSite \in {"pull_conduwuit", "pull_coturn"} =>
          pc = "exited" /\ outcome = "fail"
     /\ exitSite = "pull_conduwuit" => ct = <<>>

\* the last candidate of each list was the first to be pulled successfully
C34_Witness ==
  /\ pc = "compose_up"
  /\ Len(pulls) = Len(conduwuit_images) + Len(coturn_images)
  /\ compose = [conduwuit |-> conduwuit_images[Len(conduwuit_images)],
                coturn    |-> coturn_images[Len(coturn_images)]]

\* the positions inside the lock wait's loop body, after the poll
LockBodyPcs == {"lock_fix", "lock_recheck", "lock_prompt", "lock_sleep"}

\* the positions inside the service wait
SvcPcs == {"svc_loop", "svc_poll", "svc_prompt", "svc_sleep"}

\* the positions inside wait_for_operation, the menu sessions included
WfoPcs ==
  {"wfo_loop", "wfo_check", "wfo_resume", "wfo_sleep"} \cup MenuSessionPcs

\* C35 (as stated, violated): when every call returns and every prompt is
\* answered, a run that is inside a wait (the lock wait, the service wait,
\* wait_for_operation with its menu) eventually is outside of it.  The
\* nesting depth the model follows show_menu to is not counted as a wait
\* that fails to end.
C35_EveryWaitEnds ==
  (pc \in {"lock_poll"} \cup LockBodyPcs \cup SvcPcs \cup WfoPcs)
    ~> (\/ pc \notin {"lock_poll"} \cup LockBodyPcs \cup SvcPcs \cup WfoPcs
        \/ menuDepth = MaxMenuDepth)

\* C35 (amended): every wait loop has a bounded number of passes.  The lock
\* wait's body runs with a loop index below 24, every way back to the loop
\* head adds one to it, and at 24 the loop is left.  A health wait polls
\* only while less than its timeout has elapsed, the only way back to its
\* loop head is the sleep, which adds check_interval to the elapsed time,
\* nothing inside the wait sets the elapsed time back, and at the loop head
\* an elapsed timeout ends the wait; choosing "continue" leads to that sleep.
C35_WaitLoopsBounded ==
  /\ [](total_checks = 24)
  /\ [](pc \in LockBodyPcs => i < total_checks)
  /\ [](pc = "lock_poll" => i <= total_checks)
  /\ [](pc = "svc_poll" => clk < svc_max_wait_time)
  /\ [](pc = "wfo_check" => clk < Timeout(current_step))
  /\ [][/\ (pc = "lock_poll" /\ i >= total_checks) => pc' = "lock_final"
        /\ (pc \in LockBodyPcs /\ pc' = "lock_poll") => i' = i + 1
        /\ (pc \in {"lock_poll"} \cup LockBodyPcs /\ pc' \in LockBodyPcs) =>
             i' = i
        /\ (pc \in SvcPcs /\ pc' = "svc_loop") =>
             /\ pc = "svc_sleep"
             /\ \/ clk' >= clk + svc_check_interval
                \/ clk' = svc_max_wait_time
        /\ (pc \in WfoPcs /\ pc' = "wfo_loop") =>
             /\ pc = "wfo_sleep"
             /\ \/ clk' >= clk + wfo_check_interval
                \/ clk' = Timeout(current_step)
        /\ (pc \in SvcPcs \cup WfoPcs /\ pc' \in SvcPcs \cup WfoPcs) =>
             clk' >= clk
        /\ (pc = "svc_loop" /\ clk >= svc_max_wait_time) => pc' = "exited"
        /\ (pc = "wfo_loop" /\ clk >= Timeout(current_step)) =>
             pc' = "wfo_ret"
        /\ (pc = "svc_prompt" /\ choice' # "4") => pc' = "svc_sleep"
        /\ (pc = "menu_prompt" /\ choice' = "1") =>
             (pc' = "wfo_resume" /\ menuResult' = "true")
        /\ (pc = "wfo_resume" /\ menuResult = "true") => pc' = "wfo_sleep"
       ]_vars

\* a health wait that ended on its timeout although the operator chose
\* "continue" at every menu
C35_Witness ==
  /\ pc = "wfo_ret"
  /\ wfoResult = "false"
  /\ menus >= 1
  /\ ~otherChoice
  /\ clk >= Timeout(current_step)

====
